---- MODULE Spec2Model ----
(***************************************************************************)
(* Model of the halfway-db graph pipeline:                                 *)
(*   update_national_network.py  load_line_records / merge_line_edges      *)
(*   graph_times.py              dijkstra / main                           *)
(*   national_graph.py           TimeNormalizer, classify_service,         *)
(*                               extract_stop_events, compute_headways,    *)
(*                               build_national_graph                      *)
(*   update_national_network.py  the station catalogue of main             *)
(*   national_loader.py          iter_timetable_records / iter_schedules   *)
(*   dump_tfl_concurrent.py      TflAPI.get_travel_time / edge_processor   *)
(* Each component has its own specification (SpecMerge, SpecPaths, ...);   *)
(* the variables of the other components stay at their idle values.        *)
(*                                                                         *)
(* Times of the national timetable are multiples of half a minute (the     *)
(* "H" marker adds 0.5); the model counts them in half-minutes, so that    *)
(* 1440 minutes are 2880 units and MIN_TRAVEL_MINUTES = 0.5 is 1 unit.     *)
(***************************************************************************)
EXTENDS Integers, Sequences, FiniteSets, Bags, TLC

VARIABLES
    \* update_national_network.py: merge_line_edges and its caller
    records,      \* List[dict]: the edge records, in list order
    index,        \* Dict[key, int]: key -> 0-based position in records
    new_edges,    \* the batch handed to the last merge_line_edges call
    before,       \* records as they were when the last call started
    updates,      \* first component of the last call's return value
    inserts,      \* second component of the last call's return value
    repeat,       \* TRUE when the last call repeated the previous batch
    \* graph_times.py: build_graph, dijkstra, main
    graph,        \* the edges of lines.jsonl: <<from node, to node>> -> time
    start,        \* dijkstra: the start node
    distances,    \* dijkstra: node -> distance (Inf when absent)
    pq,           \* dijkstra: the heap, a bag of <<distance, node>>
    pc,           \* dijkstra: "idle", "running" or "done"
    todo,         \* main: the nodes the outer loop has still to visit
    rows,         \* main: the rows written to shortest_paths.jsonl
    \* national_graph.py: one TimeNormalizer instance and its caller
    day_offset,   \* TimeNormalizer._day_offset
    last_value,   \* TimeNormalizer._last_value: <<>> for None, <<v>> otherwise
    raw,          \* the token of the last parse call
    out,          \* the value the last parse call returned (<<>> for None)
    emitted,      \* the non-empty values returned so far, in call order
    \* national_graph.py: classify_service and compute_headways as called
    category,     \* schedule_segment["CIF_train_category"] (<<>> when absent)
    stop_ratio,   \* the stop ratio, [num, den] for num / den
    variant,      \* what classify_service returned: None, Some("slow"), Some("express")
    classified,   \* TRUE once classify_service has returned
    departures,   \* the argument of compute_headways: key -> list of times of day
    headways,     \* what compute_headways returned (<<>> before the call)
    \* national_graph.py: build_national_graph, and the merge of its result
    feed,            \* the schedules of the timetable feed, in file order
    pending,         \* positions of the feed the loop has not processed yet
    edge_costs,      \* dict EdgeKey -> travel time, as <<key, value>> in insertion order
    dep_times,       \* dict (station, line) -> departure times, in insertion order
    station_usage,   \* dict station_id -> StationMetadata, in insertion order
    line_headways,   \* the headways dict of line 290, in insertion order
    platform_edges,  \* NationalGraphResult.edges
    phase,           \* "build", "built" or "idle"
    batches,         \* the edge batches still to be merged into records
    \* update_national_network.py: the station catalogue of main, lines 208-213
    stations,        \* Dict[str, dict]: <<station_id, record>> in insertion order
    national,        \* national_result.stations: <<station_id, StationMetadata>>
    prior,           \* the catalogue as load_station_records returned it
    unnamed,         \* the catalogue as ensure_unique_station_names received it
    stage,           \* "idle", "loaded", "merged", "filtered", "named" or "written"
    persisted,       \* the records of stations.jsonl after write_station_records
    \* national_loader.py: the timetable feed read line by line
    lines,           \* the lines of toc-full.jsonl
    cursor,          \* number of lines consumed
    processed,       \* the schedules the loop of build_national_graph received
    aborted,         \* TRUE once an exception left build_national_graph
    \* dump_tfl_concurrent.py: TflAPI.edge_processor
    tfl_edges,       \* the edges handed to edge_processor
    fetch,           \* what _fetch_tfl_data returns for each line edge
    futures,         \* edge -> <<"pending">>, <<"running">>, <<"ok", edge>>, <<"raised">>
    collected,       \* the futures whose result() the calling thread has taken
    timed_edges,     \* the list edge_processor builds
    tfl_pc,          \* "idle", "running", "returned" or "raised"
    \* national_loader.py: build_station_catalogue
    corpus,          \* Dict[str, CorpusRecord]: <<tiploc, record>> in insertion order
    stop_points,     \* Dict[str, StopPoint]: <<tiploc, stop point>> in insertion order
    station_catalogue,  \* the dict build_station_catalogue returns
    catalogued       \* TRUE once build_station_catalogue has returned

mergeVars == <<records, index, new_edges, before, updates, inserts, repeat>>
pathVars == <<graph, start, distances, pq, pc, todo, rows>>

timeVars == <<day_offset, last_value, raw, out, emitted>>

classVars == <<category, stop_ratio, variant, classified>>
headwayVars == <<departures, headways>>

buildVars == <<feed, pending, edge_costs, dep_times, station_usage, line_headways,
               platform_edges, phase, batches>>

stationVars == <<stations, national, prior, unnamed, stage, persisted>>
readerVars == <<lines, cursor, processed, aborted>>
tflVars == <<tfl_edges, fetch, futures, collected, timed_edges, tfl_pc>>
catalogueVars == <<corpus, stop_points, station_catalogue, catalogued>>

vars == <<mergeVars, pathVars, timeVars, classVars, headwayVars, buildVars,
          stationVars, readerVars, tflVars, catalogueVars>>

notMerge == <<pathVars, timeVars, classVars, headwayVars, buildVars,
    stationVars, readerVars, tflVars, catalogueVars>>
notPaths == <<mergeVars, timeVars, classVars, headwayVars, buildVars,
    stationVars, readerVars, tflVars, catalogueVars>>
notTime == <<mergeVars, pathVars, classVars, headwayVars, buildVars,
    stationVars, readerVars, tflVars, catalogueVars>>
notClass == <<mergeVars, pathVars, timeVars, headwayVars, buildVars,
    stationVars, readerVars, tflVars, catalogueVars>>
notHeadway == <<mergeVars, pathVars, timeVars, classVars, buildVars,
    stationVars, readerVars, tflVars, catalogueVars>>
notBuild == <<pathVars, timeVars, classVars, headwayVars,
    stationVars, readerVars, tflVars, catalogueVars>>
coreVars == <<mergeVars, pathVars, timeVars, classVars, headwayVars, buildVars>>
notStations == <<coreVars, readerVars, tflVars, catalogueVars>>
notReader == <<coreVars, stationVars, tflVars, catalogueVars>>
notTfl == <<coreVars, stationVars, readerVars, catalogueVars>>
notCatalogue == <<coreVars, stationVars, readerVars, tflVars>>

----------------------------------------------------------------------------
\* Generic helpers

Range(s) == {s[i] : i \in DOMAIN s}

SeqsUpTo(S, n) == UNION {[1..k -> S] : k \in 0..n}

Min(S) == CHOOSE x \in S : \A y \in S : x <= y

----------------------------------------------------------------------------
\* update_national_network.py : edge records, load_line_records, merge_line_edges

MaxFile == 2       \* lines of the persisted edge file
MaxBatch == 2      \* edges of one merge batch

\* The weights the examples of the merge use (10 then 7, 10 then 12).
TimeValues == {7, 10, 12}

MergeKeys ==
    { <<"A", "L", "B", "L">>, <<"A", "HUB", "A", "L">> }

EdgeRecord(k, t) ==
    [from_id |-> k[1], from_line |-> k[2], to_id |-> k[3], to_line |-> k[4], time |-> t]

KeyOf(e) == <<e.from_id, e.from_line, e.to_id, e.to_line>>

MergeEdges == {EdgeRecord(k, t) : k \in MergeKeys, t \in TimeValues}

\* A line of lines.jsonl after strip(): <<>> when blank, <<data>> otherwise.
IsBlank(line) == line = <<>>

\* load_line_records: idx enumerates the lines of the file (blank ones
\* included), records takes the non-blank ones, index[key] = idx.
RECURSIVE LoadFrom(_, _, _)
LoadFrom(file, i, acc) ==
    IF i > Len(file) THEN acc
    ELSE IF IsBlank(file[i]) THEN LoadFrom(file, i + 1, acc)
    ELSE LET data == file[i][1]
             key == KeyOf(data)
         IN LoadFrom(file, i + 1,
                [records |-> Append(acc.records, data),
                 index |-> [k \in DOMAIN acc.index \cup {key} |->
                               IF k = key THEN i - 1 ELSE acc.index[k]]])

load_line_records(file) == LoadFrom(file, 1, [records |-> <<>>, index |-> <<>>])

\* write_line_records: one line per record, in list order.
write_line_records(recs) == [i \in 1..Len(recs) |-> <<recs[i]>>]

\* The comparison of line 181.
ShouldLower_LE(time, stored) == time <= stored
ShouldLower_Always(time, stored) == TRUE
ShouldLower_NE(time, stored) == time # stored
ShouldLower(time, stored) == time < stored

\* One iteration of the loop of merge_line_edges.  records[idx] of a
\* position outside the list raises IndexError: the call ends there.
MergeEdge(st, edge) ==
    LET key == KeyOf(edge)
        time == edge.time
    IN IF st.error THEN st
       ELSE IF key \in DOMAIN st.index
       THEN LET idx == st.index[key]
            IN IF idx + 1 > Len(st.records)
               THEN [st EXCEPT !.error = TRUE]
               ELSE IF ShouldLower(time, st.records[idx + 1].time)
               THEN [st EXCEPT !.records[idx + 1].time = time,
                               !.updates = @ + 1]
               ELSE st
       ELSE [st EXCEPT
               !.records = Append(@, EdgeRecord(key, time)),
               !.index = [k \in DOMAIN st.index \cup {key} |->
                             IF k = key THEN Len(st.records) ELSE st.index[k]],
               !.inserts = @ + 1]

RECURSIVE MergeFrom(_, _, _)
MergeFrom(st, edges, i) ==
    IF i > Len(edges) THEN st ELSE MergeFrom(MergeEdge(st, edges[i]), edges, i + 1)

merge_line_edges(recs, idx, edges) ==
    MergeFrom([records |-> recs, index |-> idx, updates |-> 0, inserts |-> 0,
               error |-> FALSE], edges, 1)

\* The weight the graph reader (graph_times.build_graph) sees for a key:
\* the time of the last record that carries it.
HasKey(recs, k) == \E i \in 1..Len(recs) : KeyOf(recs[i]) = k
StoredWeight(recs, k) ==
    LET last == CHOOSE i \in 1..Len(recs) :
                    /\ KeyOf(recs[i]) = k
                    /\ \A j \in 1..Len(recs) : KeyOf(recs[j]) = k => j <= i
    IN recs[last].time

\* The edge files the pipeline writes: one record per line, one per key.
PipelineFiles ==
    {f \in SeqsUpTo({<<e>> : e \in MergeEdges}, MaxFile) :
        \A i, j \in DOMAIN f : KeyOf(f[i][1]) = KeyOf(f[j][1]) => i = j}

MergeBatches == SeqsUpTo(MergeEdges, MaxBatch)

\* Every edge file: blank lines and repeated keys included.
EdgeFiles == SeqsUpTo({<<>>} \cup {<<e>> : e \in MergeEdges}, MaxFile)

IdleMerge ==
    /\ records = <<>>
    /\ index = <<>>
    /\ new_edges = <<>>
    /\ before = <<>>
    /\ updates = 0
    /\ inserts = 0
    /\ repeat = FALSE

StartMerge ==
    /\ \E file \in PipelineFiles :
         LET ld == load_line_records(file)
         IN /\ records = ld.records
            /\ index = ld.index
            /\ before = ld.records
    /\ new_edges = <<>>
    /\ updates = 0
    /\ inserts = 0
    /\ repeat = FALSE

\* main, line 216, on any edge file.
StartLoad ==
    /\ \E file \in EdgeFiles :
         LET ld == load_line_records(file)
         IN /\ records = ld.records
            /\ index = ld.index
            /\ before = ld.records
    /\ new_edges = <<>>
    /\ updates = 0
    /\ inserts = 0
    /\ repeat = FALSE

\* main, lines 216-218: one call of merge_line_edges on the loaded records.
Merge(batch) ==
    LET r == merge_line_edges(records, index, batch)
    IN /\ ~r.error
       /\ before' = records
       /\ new_edges' = batch
       /\ records' = r.records
       /\ index' = r.index
       /\ updates' = r.updates
       /\ inserts' = r.inserts
       /\ repeat' = FALSE

MergeNew == (\E batch \in MergeBatches : Merge(batch)) /\ UNCHANGED notMerge

\* The same batch handed to merge_line_edges once more.
MergeAgain ==
    LET r == merge_line_edges(records, index, new_edges)
    IN /\ ~r.error
       /\ before' = records
       /\ new_edges' = new_edges
       /\ records' = r.records
       /\ index' = r.index
       /\ updates' = r.updates
       /\ inserts' = r.inserts
       /\ repeat' = TRUE
       /\ UNCHANGED notMerge

----------------------------------------------------------------------------
\* graph_times.py : build_graph, dijkstra, is_ground_node, main

MaxWeight == 2     \* largest edge weight of the enumerated graphs

\* float('inf'): larger than every path length of the model.
Inf == 1000000

GROUND_A == <<"A", "GROUND">>
HUB_A == <<"A", "HUB">>
LINE1_A == <<"A", "LINE1">>
LINE1_B == <<"B", "LINE1">>
HUB_B == <<"B", "HUB">>
GROUND_B == <<"B", "GROUND">>

\* The nodes, in the order Python compares the tuples (heapq breaks ties of
\* the distance by the node).
NodeOrder == <<GROUND_A, HUB_A, LINE1_A, GROUND_B, HUB_B, LINE1_B>>
Nodes == Range(NodeOrder)
Rank(n) == CHOOSE i \in DOMAIN NodeOrder : NodeOrder[i] = n

\* build_graph: graph[key1][key2] = time for every record of lines.jsonl.
build_graph(recs) ==
    [e \in {<<<<r.from_id, r.from_line>>, <<r.to_id, r.to_line>>>> : r \in Range(recs)} |->
        StoredWeight(recs, <<e[1][1], e[1][2], e[2][1], e[2][2]>>)]

Neighbours(g, n) == {m \in Nodes : <<n, m>> \in DOMAIN g}

\* The graph of the worked example.
ExampleRecords ==
    << EdgeRecord(<<"A", "GROUND", "A", "HUB">>, 2),
       EdgeRecord(<<"A", "HUB", "A", "LINE1">>, 3),
       EdgeRecord(<<"A", "LINE1", "B", "LINE1">>, 10),
       EdgeRecord(<<"B", "LINE1", "B", "HUB">>, 2),
       EdgeRecord(<<"B", "HUB", "B", "GROUND">>, 2) >>
ExampleGraph == build_graph(ExampleRecords)

\* Every weighted graph on three nodes, weights 0..MaxWeight.
SmallNodes == {GROUND_A, HUB_A, GROUND_B}
SmallPairs == {e \in SmallNodes \X SmallNodes : e[1] # e[2]}
SmallGraphs == UNION {[E -> 0..MaxWeight] : E \in SUBSET SmallPairs}

Graphs == SmallGraphs \cup {ExampleGraph}

\* heappop: the least <<distance, node>> of the heap.
HeapLess(a, b) == a[1] < b[1] \/ (a[1] = b[1] /\ Rank(a[2]) < Rank(b[2]))
HeapTop(h) == CHOOSE a \in BagToSet(h) : \A b \in BagToSet(h) : a = b \/ HeapLess(a, b)

\* Line 26: a heap entry is stale when the node has a smaller distance by now.
IsStale(current_distance, known) == current_distance > known

\* Line 32: relax an edge only when it improves the neighbour's distance.
Improves_Far(distance, known) == known = Inf
Improves(distance, known) == distance < known

\* dijkstra, lines 19-21.
DijkstraStart(s) ==
    [distances |-> [n \in Nodes |-> IF n = s THEN 0 ELSE Inf],
     pq |-> SetToBag({<<0, s>>})]

\* dijkstra, lines 24-34: one iteration of the while loop.
DijkstraIter(g, st) ==
    LET top == HeapTop(st.pq)
        rest == st.pq (-) SetToBag({top})
        current_distance == top[1]
        current == top[2]
    IN IF IsStale(current_distance, st.distances[current])
       THEN [st EXCEPT !.pq = rest]
       ELSE LET better == {n \in Neighbours(g, current) :
                              Improves(current_distance + g[<<current, n>>], st.distances[n])}
            IN [distances |-> [n \in Nodes |->
                                 IF n \in better
                                 THEN current_distance + g[<<current, n>>]
                                 ELSE st.distances[n]],
                pq |-> rest (+) SetToBag({<<current_distance + g[<<current, n>>], n>> :
                                             n \in better})]

RECURSIVE DijkstraLoop(_, _)
DijkstraLoop(g, st) ==
    IF st.pq = EmptyBag THEN st.distances ELSE DijkstraLoop(g, DijkstraIter(g, st))

dijkstra(g, s) == DijkstraLoop(g, DijkstraStart(s))

is_ground_node_Any(node) == TRUE
is_ground_node(node) == node[2] = "GROUND"

\* main, lines 46-50: the nodes that occur in an edge.
GraphNodes(g) == {e[1] : e \in DOMAIN g} \cup {e[2] : e \in DOMAIN g}

\* main, lines 58-65: the rows written for one start.
RowsFrom(g, s, d) ==
    {[from_station |-> s[1], to_station |-> e[1], time |-> d[e]] :
        e \in {n \in GraphNodes(g) : d[n] # Inf /\ s # n /\ is_ground_node(n)}}

IdlePaths ==
    /\ graph = <<>>
    /\ start = <<>>
    /\ distances = <<>>
    /\ pq = EmptyBag
    /\ pc = "idle"
    /\ todo = {}
    /\ rows = {}

\* One single-source run, step by step: any graph, any start node.
StartDijkstra ==
    /\ graph \in Graphs
    /\ start \in Nodes
    /\ distances = DijkstraStart(start).distances
    /\ pq = DijkstraStart(start).pq
    /\ pc = "running"
    /\ todo = {}
    /\ rows = {}

DijkstraStep ==
    /\ pc = "running"
    /\ pq # EmptyBag
    /\ LET st == DijkstraIter(graph, [distances |-> distances, pq |-> pq])
       IN distances' = st.distances /\ pq' = st.pq
    /\ UNCHANGED <<graph, start, pc, todo, rows>>
    /\ UNCHANGED notPaths

DijkstraDone ==
    /\ pc = "running"
    /\ pq = EmptyBag
    /\ pc' = "done"
    /\ UNCHANGED <<graph, start, distances, pq, todo, rows>>
    /\ UNCHANGED notPaths

\* main: the outer loop over the nodes, in the set's iteration order.
StartMain ==
    /\ graph \in Graphs
    /\ todo = GraphNodes(graph)
    /\ rows = {}
    /\ start = <<>>
    /\ distances = <<>>
    /\ pq = EmptyBag
    /\ pc = "idle"

MainSkip ==
    /\ \E s \in todo :
        /\ ~is_ground_node(s)
        /\ todo' = todo \ {s}
        /\ UNCHANGED <<graph, start, distances, pq, pc, rows>>
    /\ UNCHANGED notPaths

MainRun ==
    /\ \E s \in todo :
        /\ is_ground_node(s)
        /\ todo' = todo \ {s}
        /\ start' = s
        /\ distances' = dijkstra(graph, s)
        /\ pq' = EmptyBag
        /\ pc' = "done"
        /\ rows' = rows \cup RowsFrom(graph, s, distances')
        /\ UNCHANGED graph
    /\ UNCHANGED notPaths

\* Reference: the least total weight of a path, by |Nodes| - 1 rounds of
\* relaxing every edge (Bellman-Ford).
RelaxAll(g, d) ==
    [n \in Nodes |->
        Min({d[n]} \cup {d[e[1]] + g[e] : e \in {x \in DOMAIN g : x[2] = n /\ d[x[1]] # Inf}})]

RECURSIVE RelaxRounds(_, _, _)
RelaxRounds(g, d, k) == IF k = 0 THEN d ELSE RelaxRounds(g, RelaxAll(g, d), k - 1)

ShortestFrom(g, s) ==
    RelaxRounds(g, [n \in Nodes |-> IF n = s THEN 0 ELSE Inf], Cardinality(Nodes) - 1)

----------------------------------------------------------------------------
\* national_graph.py : TimeNormalizer

MaxCalls == 3          \* parse calls on one TimeNormalizer instance

UnitsPerMinute == 2    \* the model's time unit is half a minute
MinutesPerDay == 1440  \* 24 * 60
DayUnits == MinutesPerDay * UnitsPerMinute

\* Optional[float]: <<>> is None, <<v>> a value.
None == <<>>
Some(v) == <<v>>

\* Strings are sequences of characters.
DigitChars == <<"0", "1", "2", "3", "4", "5", "6", "7", "8", "9">>
IsDigitChar(c) == \E i \in DOMAIN DigitChars : DigitChars[i] = c
DigitValue(c) == (CHOOSE i \in DOMAIN DigitChars : DigitChars[i] = c) - 1

\* str.isdigit(): not empty and only digits.
IsDigit(str) == str # <<>> /\ \A i \in DOMAIN str : IsDigitChar(str[i])

\* int(str) of a string of digits.
RECURSIVE IntOf(_)
IntOf(str) ==
    IF str = <<>> THEN 0
    ELSE 10 * IntOf(SubSeq(str, 1, Len(str) - 1)) + DigitValue(str[Len(str)])

\* str.strip(): leading and trailing blanks removed.
RECURSIVE LStrip(_)
LStrip(str) == IF str # <<>> /\ Head(str) = " " THEN LStrip(Tail(str)) ELSE str
RECURSIVE RStrip(_)
RStrip(str) ==
    IF str # <<>> /\ str[Len(str)] = " " THEN RStrip(SubSeq(str, 1, Len(str) - 1)) ELSE str
Strip(str) == RStrip(LStrip(str))

\* Lines 66-74: the time of day of a token, in half-minutes; None when the
\* token is empty, shorter than three characters or not numeric.
ClockMinutes(token, half_minute) ==
    IF Len(token) < 3 \/ ~IsDigit(token) THEN None
    ELSE LET hh == IntOf(SubSeq(token, 1, Len(token) - 2))
             mm == IntOf(SubSeq(token, Len(token) - 1, Len(token)))
         IN Some((hh * 60 + mm) * UnitsPerMinute + (IF half_minute THEN 1 ELSE 0))

StrippedMinutes(stripped) ==
    IF stripped # <<>> /\ stripped[Len(stripped)] = "H"
    THEN ClockMinutes(SubSeq(stripped, 1, Len(stripped) - 1), TRUE)
    ELSE ClockMinutes(stripped, FALSE)

BaseMinutes(rawtok) == IF rawtok = <<>> THEN None ELSE StrippedMinutes(Strip(rawtok))

\* Line 79: the day offset after a rollover.
NextDay_Same(offset) == offset
NextDay(offset) == offset + 1

\* TimeNormalizer.parse on the instance state st = [day_offset, last_value].
\* All values are whole half-minutes, so minutes + 1e-6 < last is minutes < last.
\* Lines 82-84: the value is remembered when it is the largest so far.
Emit(st, offset, minutes) ==
    [day_offset |-> offset,
     last_value |-> IF st.last_value = None \/ minutes > st.last_value[1]
                    THEN Some(minutes) ELSE st.last_value,
     result |-> Some(minutes)]

\* Lines 77-80: a value below the last one moves to the next day.
Rollover(st, base_minutes, first) ==
    IF st.last_value # None /\ first < st.last_value[1]
    THEN Emit(st, NextDay(st.day_offset),
              base_minutes + NextDay(st.day_offset) * DayUnits)
    ELSE Emit(st, st.day_offset, first)

NormalizeBase(st, base) ==
    IF base = None
    THEN [day_offset |-> st.day_offset, last_value |-> st.last_value, result |-> None]
    ELSE Rollover(st, base[1], base[1] + st.day_offset * DayUnits)

TimeNormalizerParse(st, rawtok) == NormalizeBase(st, BaseMinutes(rawtok))

NewNormalizer == [day_offset |-> 0, last_value |-> None]

\* The tokens fed to the normaliser.
T_empty == <<>>
T_2350 == <<"2", "3", "5", "0">>
T_0010 == <<"0", "0", "1", "0">>
T_0010H == <<"0", "0", "1", "0", "H">>
T_930 == <<"9", "3", "0">>
T_2500 == <<"2", "5", "0", "0">>
T_short == <<"1", "2">>
T_alpha == <<"1", "2", "a", "0">>
T_padded == <<" ", "0", "7", "1", "5", " ">>

ClockTokens == {T_empty, T_2350, T_0010, T_0010H, T_930, T_padded, T_short, T_alpha}
Tokens == ClockTokens \cup {T_2500}

IdleTime ==
    /\ day_offset = 0
    /\ last_value = None
    /\ raw = <<>>
    /\ out = None
    /\ emitted = <<>>

\* __init__
StartTime == IdleTime

\* One call of parse.
Parse(rawtok) ==
    LET r == TimeNormalizerParse([day_offset |-> day_offset, last_value |-> last_value],
                                 rawtok)
    IN /\ day_offset' = r.day_offset
       /\ last_value' = r.last_value
       /\ raw' = rawtok
       /\ out' = r.result
       /\ emitted' = IF r.result = None THEN emitted ELSE Append(emitted, r.result[1])

ParseToken ==
    /\ Len(emitted) < MaxCalls
    /\ \E rawtok \in Tokens : Parse(rawtok)
    /\ UNCHANGED notTime

----------------------------------------------------------------------------
\* national_graph.py : classify_service

MaxPoints == 10        \* timing points of a schedule, for the stop ratio

\* MIN_RATIO_FOR_SLOW = 0.7, as the fraction MinRatioNum / MinRatioDen.
MinRatioNum == 7
MinRatioDen == 10

LowerChars == <<"b", "d", "o", "r", "s", "x">>
UpperChars == <<"B", "D", "O", "R", "S", "X">>

\* str.upper()
UpperChar(c) ==
    IF \E i \in DOMAIN LowerChars : LowerChars[i] = c
    THEN UpperChars[CHOOSE i \in DOMAIN LowerChars : LowerChars[i] = c]
    ELSE c
Upper(str) == [i \in DOMAIN str |-> UpperChar(str[i])]

\* Line 128: the categories that are no passenger service.
NonPassenger == {<<"B", "R">>, <<"B", "S">>, <<"D", "D">>}

\* Line 131.  p / t is the correctly rounded quotient and 0.7 the double
\* nearest to 7/10, so p / t >= 0.7 decides as p * 10 >= 7 * t does for
\* every count a timetable can hold.
ReachesSlow_Strict(ratio) == ratio.num * MinRatioDen > MinRatioNum * ratio.den
ReachesSlow(ratio) == ratio.num * MinRatioDen >= MinRatioNum * ratio.den

\* Lines 125-129: the category after "or ''", strip() and upper().
IsRejected_Raw(cat) == cat \in NonPassenger
IsRejected(cat) == Upper(Strip(cat)) \in NonPassenger

classify_service(cat, ratio) ==
    IF IsRejected(cat) THEN None
    ELSE IF ReachesSlow(ratio) THEN Some("slow")
    ELSE Some("express")

\* Category codes as the feed may spell them.
RejectedSpellings ==
    { <<"B", "R">>, <<"B", "S">>, <<"D", "D">>, <<"b", "r">>, <<"D", "d">>,
      <<" ", "B", "S", " ">>, <<"b", "S", " ">> }
AcceptedSpellings ==
    { <<>>, <<"O", "O">>, <<"X", "X">>, <<"x", "x">>, <<"B">>, <<"B", "R", "O">>,
      <<"B", " ", "R">>, <<" ">> }
Categories == RejectedSpellings \cup AcceptedSpellings

Ratio(p, t) == [num |-> p, den |-> t]
Ratios ==
    {r \in [num : 0..MaxPoints, den : 1..MaxPoints] : r.num <= r.den}
        \cup {Ratio(69, 100), Ratio(70, 100)}

IdleClass ==
    /\ category = <<>>
    /\ stop_ratio = Ratio(0, 1)
    /\ variant = None
    /\ classified = FALSE

StartClass ==
    /\ category \in Categories
    /\ stop_ratio \in Ratios
    /\ variant = None
    /\ classified = FALSE

Classify ==
    /\ ~classified
    /\ variant' = classify_service(category, stop_ratio)
    /\ classified' = TRUE
    /\ UNCHANGED <<category, stop_ratio>>
    /\ UNCHANGED notClass

----------------------------------------------------------------------------
\* national_graph.py : compute_headways

MaxDepartures == 3            \* recorded departures of one station-line

FallbackHeadwayMinutes == 30  \* the conservative fallback headway
FallbackHeadway == FallbackHeadwayMinutes * UnitsPerMinute

\* sorted(): insertion sort.
RECURSIVE Insert(_, _)
Insert(x, sorted) ==
    IF sorted = <<>> THEN <<x>>
    ELSE IF x <= Head(sorted) THEN <<x>> \o sorted
    ELSE <<Head(sorted)>> \o Insert(x, Tail(sorted))
RECURSIVE Sorted(_)
Sorted(list) == IF list = <<>> THEN <<>> ELSE Insert(Head(list), Sorted(Tail(list)))

\* Line 201: the gaps the list comprehension keeps.
KeepsGap_All(a, b) == TRUE
KeepsGap_NotLess(a, b) == b >= a
KeepsGap(a, b) == b > a

\* Line 203: the gap from the last departure to the first one a day later.
WrapGap(sorted_times) == (sorted_times[1] + DayUnits) - sorted_times[Len(sorted_times)]

\* Lines 195-211 for the times of one key.
HeadwayOf(times) ==
    IF Len(times) < 2 THEN FallbackHeadway
    ELSE LET sorted_times == Sorted(times)
             diffs == {sorted_times[i + 1] - sorted_times[i] :
                          i \in {j \in 1..(Len(sorted_times) - 1) :
                                    KeepsGap(sorted_times[j], sorted_times[j + 1])}}
             wrap == WrapGap(sorted_times)
             all == IF wrap > 0 THEN diffs \cup {wrap} ELSE diffs
         IN IF all = {} THEN FallbackHeadway ELSE Min(all)

compute_headways(deps) == [k \in DOMAIN deps |-> HeadwayOf(deps[k])]

\* Times of day, in half-minutes: 01:40, 02:10, 02:40 and 23:59:30.
DepartureTimes == {100 * UnitsPerMinute, 130 * UnitsPerMinute, 160 * UnitsPerMinute,
                   DayUnits - 1}
StationLines == {<<"910GA", "x-slow">>, <<"910GB", "x-slow">>}

IdleHeadway ==
    /\ departures = <<>>
    /\ headways = <<>>

StartHeadway ==
    /\ departures \in [StationLines -> SeqsUpTo(DepartureTimes, MaxDepartures)]
    /\ headways = <<>>

ComputeHeadways ==
    /\ headways = <<>>
    /\ headways' = compute_headways(departures)
    /\ UNCHANGED departures
    /\ UNCHANGED notHeadway

----------------------------------------------------------------------------
\* national_graph.py : extract_stop_events, build_national_graph

MaxFeed == 2                  \* schedules of the timetable feed

GROUND_TO_HUB_MINUTES == 2
PLATFORM_TO_HUB_MINUTES == 2
MAX_WAIT_MINUTES == 25
MinTravelUnits == 1           \* MIN_TRAVEL_MINUTES = 0.5, in half-minutes

\* A dict, as the sequence of its <<key, value>> items in insertion order.
DictHas(d, k) == \E i \in DOMAIN d : d[i][1] = k
DictGet(d, k) == d[CHOOSE i \in DOMAIN d : d[i][1] = k][2]
DictPut(d, k, v) ==
    IF DictHas(d, k) THEN [i \in DOMAIN d |-> IF d[i][1] = k THEN <<k, v>> ELSE d[i]]
    ELSE Append(d, <<k, v>>)
DictSetDefault(d, k, v) == IF DictHas(d, k) THEN d ELSE Append(d, <<k, v>>)

\* a or b, for strings.
Or(a, b) == IF a # <<>> THEN a ELSE b

\* str.lower()
LowerChar(c) ==
    IF \E i \in DOMAIN UpperChars : UpperChars[i] = c
    THEN LowerChars[CHOOSE i \in DOMAIN UpperChars : UpperChars[i] = c]
    ELSE c
Lower(str) == [i \in DOMAIN str |-> LowerChar(str[i])]

\* (loc.get("tiploc_code") or "").strip().upper() on the codes of the feed.
NormTiploc(code) ==
    CASE code = "b" -> "B"
      [] code = " A" -> "A"
      [] OTHER -> code

\* station_id_from_tiploc
station_id_from_tiploc(tiploc) ==
    CASE tiploc = "A" -> "910GA"
      [] tiploc = "B" -> "910GB"
      [] tiploc = "C" -> "910GC"
      [] OTHER -> "910G?"

\* f"{toc_code}-{line_variant}"
LineName(toc_code, line_variant) ==
    CASE toc_code = <<"x">> /\ line_variant = "slow" -> "x-slow"
      [] toc_code = <<"x">> /\ line_variant = "express" -> "x-express"
      [] OTHER -> "?"

\* StationMetadata; coordinates in tenths of a degree, "" for no CRS code.
Meta(tiploc, three_alpha, lat, lon) ==
    [tiploc |-> tiploc, three_alpha |-> three_alpha, latitude |-> lat, longitude |-> lon]

\* The catalogue build_station_catalogue hands over (lines 232-234): A in
\* London with a CRS code, B outside London, C in London without a CRS code.
Catalogue ==
    << <<"A", Meta("A", "aaa", Some(515), Some(-1))>>,
       <<"B", Meta("B", "BBB", Some(535), Some(-22))>>,
       <<"C", Meta("C", "", Some(514), Some(0))>> >>

LONDON_LAT_RANGE == <<505, 522>>
LONDON_LON_RANGE == <<-6, 3>>

hub_id_for_station(meta) ==
    IF /\ meta.three_alpha # ""
       /\ meta.latitude # None
       /\ meta.longitude # None
       /\ LONDON_LAT_RANGE[1] <= meta.latitude[1] /\ meta.latitude[1] <= LONDON_LAT_RANGE[2]
       /\ LONDON_LON_RANGE[1] <= meta.longitude[1] /\ meta.longitude[1] <= LONDON_LON_RANGE[2]
    THEN CASE meta.three_alpha = "aaa" -> "HUBAAA"
           [] meta.three_alpha = "BBB" -> "HUBBBB"
           [] OTHER -> "HUB?"
    ELSE CASE meta.tiploc = "A" -> "HUBNR_A"
           [] meta.tiploc = "B" -> "HUBNR_B"
           [] meta.tiploc = "C" -> "HUBNR_C"
           [] OTHER -> "HUBNR_?"

StopEvent(station_id, tiploc, arrival, departure) ==
    [station_id |-> station_id, tiploc |-> tiploc, arrival |-> arrival,
     departure |-> departure]

\* extract_stop_events, lines 154-182: one location of the schedule.
\* Lines 171-182: the stop is kept when one of its two times parsed.
ExtractStop(st, tiploc, a, d) ==
    LET parsed == [st EXCEPT !.total_points = @ + 1,
                             !.public_stops = @ + 1,
                             !.normaliser = [day_offset |-> d.day_offset,
                                             last_value |-> d.last_value]]
    IN IF a.result = None /\ d.result = None THEN parsed
       ELSE [parsed EXCEPT !.stops =
               Append(@, StopEvent(station_id_from_tiploc(tiploc), tiploc,
                                   a.result, d.result))]

\* Lines 168-169: the departure is parsed after the arrival, by the same
\* normaliser.
ExtractDeparture(st, loc, tiploc, a) ==
    ExtractStop(st, tiploc, a,
                TimeNormalizerParse([day_offset |-> a.day_offset,
                                     last_value |-> a.last_value],
                                    Or(loc.departure, loc.public_departure)))

ExtractTimes(st, loc, tiploc, metadata) ==
    IF tiploc = "" \/ ~DictHas(metadata, tiploc) THEN st
    ELSE IF Or(loc.public_arrival, loc.public_departure) = <<>>
    THEN [st EXCEPT !.total_points = @ + 1]
    ELSE ExtractDeparture(st, loc, tiploc,
                          TimeNormalizerParse(st.normaliser,
                                              Or(loc.arrival, loc.public_arrival)))

ExtractLocation(st, loc, metadata) ==
    ExtractTimes(st, loc, NormTiploc(loc.tiploc_code), metadata)

RECURSIVE ExtractFrom(_, _, _, _)
ExtractFrom(st, locations, i, metadata) ==
    IF i > Len(locations) THEN st
    ELSE ExtractFrom(ExtractLocation(st, locations[i], metadata), locations, i + 1, metadata)

\* Lines 184-185.
StopsAndRatio(st) ==
    [stops |-> st.stops,
     ratio |-> IF st.total_points # 0 THEN Ratio(st.public_stops, st.total_points)
               ELSE Ratio(0, 1)]

extract_stop_events(locations, metadata) ==
    StopsAndRatio(ExtractFrom([normaliser |-> NewNormalizer, stops |-> <<>>,
                               total_points |-> 0, public_stops |-> 0],
                              locations, 1, metadata))

\* Line 278: a travel time replaces the one kept for the key.
KeepsFaster_Last(travel_minutes, existing) == TRUE
KeepsFaster(travel_minutes, existing) == travel_minutes < existing

\* Lines 257-258.
RECURSIVE UseStations(_, _, _, _)
UseStations(usage, stops_list, i, catalogue) ==
    IF i > Len(stops_list) THEN usage
    ELSE UseStations(DictSetDefault(usage, stops_list[i].station_id,
                                    DictGet(catalogue, stops_list[i].tiploc)),
                     stops_list, i + 1, catalogue)

\* Lines 260-279.
RECURSIVE AddHops(_, _, _, _)
AddHops(costs, stops_list, idx, line_name) ==
    IF idx > Len(stops_list) - 1 THEN costs
    ELSE LET current_stop == stops_list[idx]
             next_stop == stops_list[idx + 1]
         IN IF current_stop.departure = None \/ next_stop.arrival = None
            THEN AddHops(costs, stops_list, idx + 1, line_name)
            ELSE LET travel_minutes == next_stop.arrival[1] - current_stop.departure[1]
                     key == <<current_stop.station_id, line_name,
                              next_stop.station_id, line_name>>
                 IN IF travel_minutes < MinTravelUnits
                    THEN AddHops(costs, stops_list, idx + 1, line_name)
                    ELSE IF ~DictHas(costs, key)
                            \/ KeepsFaster(travel_minutes, DictGet(costs, key))
                    THEN AddHops(DictPut(costs, key, travel_minutes), stops_list, idx + 1,
                                 line_name)
                    ELSE AddHops(costs, stops_list, idx + 1, line_name)

\* Lines 280-284.
RECURSIVE AddDepartures(_, _, _, _)
AddDepartures(deps, stops_list, i, line_name) ==
    IF i > Len(stops_list) THEN deps
    ELSE IF stops_list[i].departure = None
    THEN AddDepartures(deps, stops_list, i + 1, line_name)
    ELSE LET key == <<stops_list[i].station_id, line_name>>
             sofar == IF DictHas(deps, key) THEN DictGet(deps, key) ELSE <<>>
         IN AddDepartures(
                DictPut(deps, key, Append(sofar, stops_list[i].departure[1] % DayUnits)),
                stops_list, i + 1, line_name)

\* Lines 242-284: one schedule of the feed (limit is None).
\* Lines 257-284: the stops of an accepted schedule enter the three dicts.
ProcessLine(acc, stops_list, line_name, catalogue) ==
    [edge_costs |-> AddHops(acc.edge_costs, stops_list, 1, line_name),
     departures |-> AddDepartures(acc.departures, stops_list, 1, line_name),
     station_usage |-> UseStations(acc.station_usage, stops_list, 1, catalogue)]

\* Lines 251-255.
ProcessVariant(acc, toc_code, stops_list, line_variant, catalogue) ==
    IF line_variant = None THEN acc
    ELSE ProcessLine(acc, stops_list, LineName(toc_code, line_variant[1]), catalogue)

\* Lines 247-251.
ProcessStops(acc, category_code, toc_code, ex, catalogue) ==
    IF Len(ex.stops) < 2 THEN acc
    ELSE ProcessVariant(acc, toc_code, ex.stops,
                        classify_service(category_code, ex.ratio), catalogue)

\* Lines 242-284: one schedule of the feed (limit is None).
ProcessSchedule(acc, schedule, catalogue) ==
    IF Lower(Strip(schedule.atoc_code)) = <<>> THEN acc
    ELSE ProcessStops(acc, schedule.CIF_train_category,
                      Lower(Strip(schedule.atoc_code)),
                      extract_stop_events(schedule.schedule_location, catalogue),
                      catalogue)

\* math.ceil of a time in half-minutes, in minutes.
CeilMinutes_Floor(v) == v \div UnitsPerMinute
CeilMinutes(v) == (v + UnitsPerMinute - 1) \div UnitsPerMinute

\* Lines 309 and 326: math.ceil(min(headway / 2.0, MAX_WAIT_MINUTES)).
WaitMinutes_Floor(headway) ==
    IF headway >= MAX_WAIT_MINUTES * 2 * UnitsPerMinute THEN MAX_WAIT_MINUTES
    ELSE headway \div (2 * UnitsPerMinute)
WaitMinutes(headway) ==
    IF headway >= MAX_WAIT_MINUTES * 2 * UnitsPerMinute THEN MAX_WAIT_MINUTES
    ELSE (headway + 2 * UnitsPerMinute - 1) \div (2 * UnitsPerMinute)

\* Lines 292-302.
PlatformHops(costs) ==
    [i \in DOMAIN costs |-> EdgeRecord(costs[i][1], CeilMinutes(costs[i][2]))]

\* Lines 305-328.
RECURSIVE HubHops(_, _, _)
HubHops(hws, i, usage) ==
    IF i > Len(hws) THEN <<>>
    ELSE LET station_id == hws[i][1][1]
             line_name == hws[i][1][2]
         IN IF ~DictHas(usage, station_id) THEN HubHops(hws, i + 1, usage)
            ELSE << EdgeRecord(<<station_id, line_name, station_id, "HUB">>,
                               PLATFORM_TO_HUB_MINUTES),
                    EdgeRecord(<<station_id, "HUB", station_id, line_name>>,
                               WaitMinutes(hws[i][2])) >>
                 \o HubHops(hws, i + 1, usage)

\* Lines 331-370.
RECURSIVE GroundHops(_, _)
GroundHops(usage, i) ==
    IF i > Len(usage) THEN <<>>
    ELSE LET station_id == usage[i][1]
             hub_id == hub_id_for_station(usage[i][2])
         IN << EdgeRecord(<<station_id, "GROUND", station_id, "HUB">>, GROUND_TO_HUB_MINUTES),
               EdgeRecord(<<station_id, "HUB", station_id, "GROUND">>, GROUND_TO_HUB_MINUTES),
               EdgeRecord(<<hub_id, "HUB", station_id, "HUB">>, GROUND_TO_HUB_MINUTES),
               EdgeRecord(<<station_id, "HUB", hub_id, "HUB">>, GROUND_TO_HUB_MINUTES) >>
             \o GroundHops(usage, i + 1)

\* Line 290, on the items of the departures dict.
HeadwayItems(deps) == [i \in DOMAIN deps |-> <<deps[i][1], HeadwayOf(deps[i][2])>>]

\* Lines 290-376.
FinishGraph(acc) ==
    LET hws == HeadwayItems(acc.departures)
    IN [edges |-> PlatformHops(acc.edge_costs) \o HubHops(hws, 1, acc.station_usage)
                    \o GroundHops(acc.station_usage, 1),
        headways |-> hws,
        stations |-> acc.station_usage]

\* The timetable feed.
Tok(a, b, c, d) == <<a, b, c, d>>
T_0850 == Tok("0", "8", "5", "0")
T_0858 == Tok("0", "8", "5", "8")
T_0900 == Tok("0", "9", "0", "0")
T_0900H == <<"0", "9", "0", "0", "H">>
T_0905 == Tok("0", "9", "0", "5")
T_0908 == Tok("0", "9", "0", "8")
T_0910 == Tok("0", "9", "1", "0")
T_0911 == Tok("0", "9", "1", "1")
T_0915 == Tok("0", "9", "1", "5")
T_0920 == Tok("0", "9", "2", "0")
T_0921 == Tok("0", "9", "2", "1")
T_0930 == Tok("0", "9", "3", "0")

\* A stop with public times, a passing point, and their fields.
Location(code, arr, dep, parr, pdep) ==
    [tiploc_code |-> code, arrival |-> arr, departure |-> dep,
     public_arrival |-> parr, public_departure |-> pdep]
Calls(code, arr, dep) == Location(code, arr, dep, arr, dep)
Passes(code) == Location(code, <<>>, <<>>, <<>>, <<>>)

Routes ==
    { << Calls("A", <<>>, T_0900), Calls("B", T_0910, T_0911), Calls("C", T_0930, <<>>) >>,
      << Calls("A", <<>>, T_0905), Passes("B"), Calls("C", T_0920, <<>>) >>,
      << Calls(" A", <<>>, T_2350), Calls("B", T_0010, <<>>) >>,
      << Calls("C", <<>>, T_0850), Calls("A", T_0858, T_0900H), Calls("b", T_0908, T_0911) >>,
      << Calls("B", <<>>, T_0911), Calls("ZZ", T_0915, T_0915), Calls("A", T_0921, <<>>) >>,
      << Calls("C", <<>>, T_0930) >> }

Schedule(atoc, cat, locations) ==
    [atoc_code |-> atoc, CIF_train_category |-> cat, schedule_location |-> locations]

\* A schedule without a category code; it arrives at C the minute it left B,
\* and its departure from C is not known.
NoCategory ==
    Schedule(<<"x">>, <<>>,
             << Calls("B", <<>>, T_0900), Calls("C", T_0900, <<>>),
                Calls("A", T_0915, T_0915), Calls("B", T_0921, <<>>) >>)

\* A schedule that passes a timing point the catalogue does not know.
UnknownPass ==
    Schedule(<<"x">>, <<"O", "O">>,
             << Calls("A", <<>>, T_0900), Passes("ZZ"), Calls("B", T_0905, <<>>) >>)

Schedules ==
    {Schedule(<<"X", " ">>, <<"O", "O">>, r) : r \in Routes}
        \cup { Schedule(<<"x">>, <<"b", "r">>,
                        << Calls("A", <<>>, T_0900), Calls("B", T_0905, <<>>) >>),
               Schedule(<<" ">>, <<"O", "O">>,
                        << Calls("A", <<>>, T_0900), Calls("B", T_0905, <<>>) >>),
               NoCategory, UnknownPass }

\* Edge files and batches of another pass that share keys with this one.
BuildFiles ==
    { << <<EdgeRecord(<<"910GA", "x-slow", "910GB", "x-slow">>, 9)>>,
         <<EdgeRecord(<<"910GA", "HUB", "910GA", "x-slow">>, 20)>> >> }
OtherBatches ==
    { << EdgeRecord(<<"910GA", "x-slow", "910GB", "x-slow">>, 7),
         EdgeRecord(<<"HUBAAA", "HUB", "910GA", "HUB">>, 1),
         EdgeRecord(<<"910GB", "x-slow", "910GB", "HUB">>, 5) >> }

EmptyGraph == [edge_costs |-> <<>>, departures |-> <<>>, station_usage |-> <<>>]

IdleBuild ==
    /\ feed = <<>>
    /\ pending = {}
    /\ edge_costs = <<>>
    /\ dep_times = <<>>
    /\ station_usage = <<>>
    /\ line_headways = <<>>
    /\ platform_edges = <<>>
    /\ phase = "idle"
    /\ batches = <<>>

\* build_national_graph up to line 239, and main's load_line_records.
StartBuild ==
    /\ feed \in SeqsUpTo(Schedules, MaxFeed)
    /\ pending = DOMAIN feed
    /\ edge_costs = <<>>
    /\ dep_times = <<>>
    /\ station_usage = <<>>
    /\ line_headways = <<>>
    /\ platform_edges = <<>>
    /\ phase = "build"
    /\ \E file \in BuildFiles, other \in OtherBatches :
         LET ld == load_line_records(file)
         IN /\ records = ld.records
            /\ index = ld.index
            /\ before = ld.records
            /\ batches = [name \in {"loaded", "other"} |->
                            IF name = "loaded"
                            THEN [edges |-> ld.records, merged |-> TRUE]
                            ELSE [edges |-> other, merged |-> FALSE]]
    /\ new_edges = <<>>
    /\ updates = 0
    /\ inserts = 0
    /\ repeat = FALSE

\* One iteration of the loop of line 241, on any schedule not yet processed:
\* the order in which the feed delivers the schedules is open.
ProcessNext ==
    /\ phase = "build"
    /\ \E i \in pending :
         LET acc == ProcessSchedule([edge_costs |-> edge_costs, departures |-> dep_times,
                                     station_usage |-> station_usage], feed[i], Catalogue)
         IN /\ pending' = pending \ {i}
            /\ edge_costs' = acc.edge_costs
            /\ dep_times' = acc.departures
            /\ station_usage' = acc.station_usage
    /\ UNCHANGED <<feed, line_headways, platform_edges, phase, batches>>
    /\ UNCHANGED <<mergeVars, notBuild>>

\* Lines 290-376, once the feed is exhausted.
FinishBuild ==
    /\ phase = "build"
    /\ pending = {}
    /\ LET result == FinishGraph([edge_costs |-> edge_costs, departures |-> dep_times,
                                  station_usage |-> station_usage])
       IN /\ line_headways' = result.headways
          /\ platform_edges' = result.edges
          /\ batches' = [name \in DOMAIN batches \cup {"national"} |->
                           IF name = "national"
                           THEN [edges |-> result.edges, merged |-> FALSE]
                           ELSE batches[name]]
    /\ phase' = "built"
    /\ UNCHANGED <<feed, pending, edge_costs, dep_times, station_usage>>
    /\ UNCHANGED notBuild
    /\ UNCHANGED mergeVars

\* merge_line_edges on one of the batches that wait, in any order.
MergeBatch ==
    /\ phase = "built"
    /\ \E name \in {n \in DOMAIN batches : ~batches[n].merged} :
         /\ Merge(batches[name].edges)
         /\ batches' = [batches EXCEPT ![name].merged = TRUE]
    /\ UNCHANGED <<feed, pending, edge_costs, dep_times, station_usage, line_headways,
                   platform_edges, phase>>
    /\ UNCHANGED notBuild

\* The same pass with the schedules taken in feed order, and the batches
\* merged as other pass first, national pass second.
RECURSIVE BuildInOrder(_, _, _)
BuildInOrder(acc, schedules, i) ==
    IF i > Len(schedules) THEN acc
    ELSE BuildInOrder(ProcessSchedule(acc, schedules[i], Catalogue), schedules, i + 1)

GraphInFeedOrder == FinishGraph(BuildInOrder(EmptyGraph, feed, 1))

MergedInFixedOrder ==
    LET ld == load_line_records(write_line_records(batches["loaded"].edges))
        first == merge_line_edges(ld.records, ld.index, batches["other"].edges)
    IN merge_line_edges(first.records, first.index, GraphInFeedOrder.edges).records

----------------------------------------------------------------------------
\* update_national_network.py : the station catalogue (main, lines 208-213)
\* Strings are sequences of characters; None and "" are both <<>>, as every
\* use of an optional string in this code is a truth test.

MaxStations == 3    \* records of the persisted station catalogue
MaxNational == 2    \* stations of national_result.stations

\* The characters of the station ids, in code point order.
CodeOrder == <<"0", "1", "4", "9", "A", "B", "G", "H", "T", "U", "X">>
CodePoint(c) == CHOOSE i \in DOMAIN CodeOrder : CodeOrder[i] = c

\* a < b for strings.
RECURSIVE StrLess(_, _)
StrLess(a, b) ==
    IF b = <<>> THEN FALSE
    ELSE IF a = <<>> THEN TRUE
    ELSE IF Head(a) # Head(b) THEN CodePoint(Head(a)) < CodePoint(Head(b))
    ELSE StrLess(Tail(a), Tail(b))

\* sorted(ids)
RECURSIVE SortedIds(_)
SortedIds(ids) ==
    IF ids = {} THEN <<>>
    ELSE LET least == CHOOSE a \in ids : \A b \in ids \ {a} : StrLess(a, b)
         IN <<least>> \o SortedIds(ids \ {least})

\* str.casefold()
Casefold(str) == Lower(str)

\* station_id.startswith("HUB")
StartsWithHub_Never(station_id) == FALSE
StartsWithHub(station_id) ==
    Len(station_id) >= 3 /\ SubSeq(station_id, 1, 3) = <<"H", "U", "B">>

\* One record of stations.jsonl; a key that is absent or null is <<>>.
StationRecord(id, name, code, lat, lon, tiploc, atco, naptan, locality) ==
    [station_id |-> id, station_name |-> name, code |-> code, latitude |-> lat,
     longitude |-> lon, tiploc |-> tiploc, atco_code |-> atco,
     naptan_code |-> naptan, locality |-> locality]

NewRecord(id) == StationRecord(id, <<>>, <<>>, <<>>, <<>>, <<>>, <<>>, <<>>, <<>>)

\* StationMetadata, with its strings as character sequences.
StationMetadata(tiploc, name, three_alpha, atco, naptan, lat, lon, locality) ==
    [tiploc |-> tiploc, name |-> name, three_alpha |-> three_alpha,
     atco_code |-> atco, naptan_code |-> naptan, latitude |-> lat,
     longitude |-> lon, locality_name |-> locality]

\* Lines 89-102: one station of national_stations.
MergedRecord(record, meta) ==
    [record EXCEPT
       !.station_name = Or(meta.name, Or(record.station_name, record.station_id)),
       !.code = Or(meta.three_alpha, Or(record.code, meta.tiploc)),
       !.latitude = meta.latitude,
       !.longitude = meta.longitude,
       !.tiploc = meta.tiploc,
       !.atco_code = IF meta.atco_code # <<>> THEN meta.atco_code ELSE @,
       !.naptan_code = IF meta.naptan_code # <<>> THEN meta.naptan_code ELSE @,
       !.locality = IF meta.locality_name # <<>> THEN meta.locality_name ELSE @]

MergeStation(existing, station_id, meta) ==
    DictPut(existing, station_id,
            MergedRecord(IF DictHas(existing, station_id)
                         THEN DictGet(existing, station_id)
                         ELSE NewRecord(station_id), meta))

\* merge_station_metadata; the setdefault loop of lines 104-107 turns an
\* absent key into None, which is <<>> already.
RECURSIVE merge_station_metadata(_, _, _)
merge_station_metadata(existing, national_stations, i) ==
    IF i > Len(national_stations) THEN existing
    ELSE merge_station_metadata(
             MergeStation(existing, national_stations[i][1], national_stations[i][2]),
             national_stations, i + 1)

\* filter_ground_nodes
filter_ground_nodes(recs) == SelectSeq(recs, LAMBDA item : ~StartsWithHub(item[1]))

\* Lines 120-121: the display name of a record.
DisplayName(item) == Or(item[2].station_name, item[1])

WithNames(recs) ==
    [i \in DOMAIN recs |->
        <<recs[i][1], [recs[i][2] EXCEPT !.station_name = DisplayName(recs[i])]>>]

\* Lines 118-123: name_groups, a dict casefolded name -> list of station ids.
RECURSIVE NameGroups(_, _, _)
NameGroups(recs, i, groups) ==
    IF i > Len(recs) THEN groups
    ELSE NameGroups(recs, i + 1,
             DictPut(groups, Casefold(DisplayName(recs[i])),
                     Append(IF DictHas(groups, Casefold(DisplayName(recs[i])))
                            THEN DictGet(groups, Casefold(DisplayName(recs[i])))
                            ELSE <<>>,
                            recs[i][1])))

\* str(counter)
RECURSIVE Digits(_)
Digits(n) ==
    IF n < 10 THEN <<DigitChars[n + 1]>>
    ELSE Digits(n \div 10) \o <<DigitChars[(n % 10) + 1]>>

\* Lines 141-145: the first of new_name, new_name #1, new_name #2, ... whose
\* casefolded form is not in seen.
RECURSIVE Candidate(_, _, _, _)
Candidate(new_name, candidate, counter, seen) ==
    IF Casefold(candidate) \in seen
    THEN Candidate(new_name, new_name \o <<" ", "#">> \o Digits(counter), counter + 1, seen)
    ELSE candidate

\* Line 137
Suffix(record) == Or(record.code, Or(record.tiploc, record.station_id))

\* Lines 132-138; idx is the position in enumerate(sorted(station_ids)).
KeepsName_Never(idx) == FALSE
KeepsName(idx) == idx = 0

NewName(record, idx) ==
    IF KeepsName(idx) THEN Or(record.station_name, record.station_id)
    ELSE Or(record.station_name, record.station_id)
             \o <<" ", "[">> \o Suffix(record) \o <<"]">>

Renamed(recs, station_id, candidate) ==
    DictPut(recs, station_id,
            [DictGet(recs, station_id) EXCEPT !.station_name = candidate])

\* Lines 130-148: one group, in the order of sorted(station_ids).
RECURSIVE RenameFrom(_, _, _, _)
RenameNext(recs, ordered, idx, seen, candidate) ==
    RenameFrom(Renamed(recs, ordered[idx + 1], candidate), ordered, idx + 1,
               seen \cup {Casefold(candidate)})

RenameFrom(recs, ordered, idx, seen) ==
    IF idx >= Len(ordered) THEN recs
    ELSE RenameNext(recs, ordered, idx, seen,
                    Candidate(NewName(DictGet(recs, ordered[idx + 1]), idx),
                              NewName(DictGet(recs, ordered[idx + 1]), idx), 1, seen))

\* Lines 125-148: the groups, in the order of name_groups.values().
RECURSIVE RenameGroups(_, _, _)
RenameGroups(recs, groups, g) ==
    IF g > Len(groups) THEN recs
    ELSE IF Len(groups[g][2]) <= 1 THEN RenameGroups(recs, groups, g + 1)
    ELSE RenameGroups(RenameFrom(recs, SortedIds(Range(groups[g][2])), 0, {}),
                      groups, g + 1)

NamedGroups(named) == RenameGroups(named, NameGroups(named, 1, <<>>), 1)

ensure_unique_station_names(recs) == NamedGroups(WithNames(recs))

\* write_station_records: the records in the order of sorted(records).
write_station_records(recs) ==
    LET ordered == SortedIds({recs[i][1] : i \in DOMAIN recs})
    IN [i \in DOMAIN ordered |-> DictGet(recs, ordered[i])]

\* Station ids: two national stations, a TfL station, and the ground record
\* the TfL pass writes for a hub.
ID_A == <<"9", "1", "0", "G", "A">>
ID_B == <<"9", "1", "0", "G", "B">>
ID_T == <<"9", "4", "0", "G", "T">>
ID_HUB == <<"H", "U", "B", "X">>

\* Records stations.jsonl may hold, as load_station_records keys them.
StationPool ==
    { <<ID_A, StationRecord(ID_A, <<"O", "x">>, <<>>, Some(515), Some(-1), <<>>,
                            <<"9">>, <<>>, <<"B">>)>>,
      <<ID_A, NewRecord(ID_A)>>,
      <<ID_B, StationRecord(ID_B, <<"o", "x">>, <<"X">>, <<>>, <<>>, <<"B">>,
                            <<>>, <<>>, <<>>)>>,
      <<ID_T, StationRecord(ID_T, <<"O", "X", " ", "[", "X", "]">>, <<>>, Some(514),
                            Some(0), <<>>, <<>>, <<>>, <<>>)>>,
      <<ID_T, StationRecord(ID_T, <<"O", "X">>, <<"x">>, <<>>, <<>>, <<>>,
                            <<>>, <<>>, <<>>)>>,
      <<ID_HUB, StationRecord(ID_HUB, <<"O", "x">>, <<>>, <<>>, <<>>, <<>>,
                              <<>>, <<>>, <<>>)>> }

\* Stations build_national_graph may return: one known to CORPUS only (no
\* coordinates), two known to both sources.
NationalPool ==
    { <<ID_A, StationMetadata(<<"A">>, <<"O", "x">>, <<>>, <<>>, <<>>, <<>>, <<>>, <<>>)>>,
      <<ID_A, StationMetadata(<<"A">>, <<>>, <<"X">>, <<"9">>, <<>>, Some(516), Some(0),
                              <<"B">>)>>,
      <<ID_B, StationMetadata(<<"B">>, <<"O", "X">>, <<"X">>, <<>>, <<"1">>, Some(535),
                              Some(-22), <<>>)>> }

DistinctIds(items) ==
    \A i, j \in DOMAIN items : i # j => items[i][1] # items[j][1]

Catalogues == {c \in SeqsUpTo(StationPool, MaxStations) : DistinctIds(c)}
NationalStations == {n \in SeqsUpTo(NationalPool, MaxNational) : DistinctIds(n)}

IdleStations ==
    /\ stations = <<>>
    /\ national = <<>>
    /\ prior = <<>>
    /\ unnamed = <<>>
    /\ stage = "idle"
    /\ persisted = <<>>

\* main, lines 206 and 209.
StartStations ==
    /\ stations \in Catalogues
    /\ national \in NationalStations
    /\ prior = stations
    /\ unnamed = <<>>
    /\ stage = "loaded"
    /\ persisted = <<>>

\* main, line 210.
MergeStations ==
    /\ stage = "loaded"
    /\ stations' = merge_station_metadata(stations, national, 1)
    /\ stage' = "merged"
    /\ UNCHANGED <<national, prior, unnamed, persisted>>
    /\ UNCHANGED notStations

\* main, line 211.
FilterGround ==
    /\ stage = "merged"
    /\ stations' = filter_ground_nodes(stations)
    /\ stage' = "filtered"
    /\ UNCHANGED <<national, prior, unnamed, persisted>>
    /\ UNCHANGED notStations

\* main, line 212.
EnsureUnique ==
    /\ stage = "filtered"
    /\ unnamed' = stations
    /\ stations' = ensure_unique_station_names(stations)
    /\ stage' = "named"
    /\ UNCHANGED <<national, prior, persisted>>
    /\ UNCHANGED notStations

\* main, line 213.
WriteStations ==
    /\ stage = "named"
    /\ persisted' = write_station_records(stations)
    /\ stage' = "written"
    /\ UNCHANGED <<stations, national, prior, unnamed>>
    /\ UNCHANGED notStations

----------------------------------------------------------------------------
\* update_national_network.py : main, lines 208-218, on the two files.
\* stations.jsonl and lines.jsonl are written together by each pass: the TfL
\* pass writes for every ground record the edges hub <-> ground of its id
\* (dump_tfl_concurrent.py, lines 304-309), build_national_graph returns for
\* every station of national_result.stations its ground <-> hub connectors
\* (national_graph.py, lines 331-347).

GroundConnectors(station_id) ==
    << EdgeRecord(<<station_id, "GROUND", station_id, "HUB">>, 2),
       EdgeRecord(<<station_id, "HUB", station_id, "GROUND">>, 2) >>

\* The edges with a GROUND end that go with a station dict.
RECURSIVE ConnectorsOf(_, _)
ConnectorsOf(items, i) ==
    IF i > Len(items) THEN <<>>
    ELSE GroundConnectors(items[i][1]) \o ConnectorsOf(items, i + 1)

\* main, lines 206 and 209-210, with the edge file that goes with the
\* station file.
StartPipeline ==
    /\ StartStations
    /\ LET ld == load_line_records(write_line_records(ConnectorsOf(stations, 1)))
       IN /\ records = ld.records
          /\ index = ld.index
          /\ before = ld.records
    /\ new_edges = <<>>
    /\ updates = 0
    /\ inserts = 0
    /\ repeat = FALSE

\* main, lines 216-218: the edges of the national pass are merged into the
\* edge file.
UpdateLines ==
    /\ stage = "written"
    /\ Merge(ConnectorsOf(national, 1))
    /\ stage' = "updated"
    /\ UNCHANGED <<stations, national, prior, unnamed, persisted>>
    /\ UNCHANGED <<pathVars, timeVars, classVars, headwayVars, buildVars, readerVars,
                   tflVars, catalogueVars>>

----------------------------------------------------------------------------
\* national_loader.py : iter_timetable_records, iter_schedules

MaxLines == 2      \* lines of the timetable feed

\* A decoded JSON value, tagged with its Python type.
JNull == <<"null">>
JNum(n) == <<"number", n>>
JStr(str) == <<"string", str>>
JArr(items) == <<"array", items>>
JObj(dict) == <<"object", dict>>

IsDict(v) == v[1] = "object"
IsStr(v) == v[1] = "string"

\* bool(v)
Truthy(v) ==
    CASE v[1] = "null" -> FALSE
      [] v[1] = "number" -> v[2] # 0
      [] OTHER -> v[2] # <<>>

\* dict.get(key): None when the key is absent.
Get(obj, key) == IF DictHas(obj[2], key) THEN DictGet(obj[2], key) ELSE JNull

\* v or default
OrElse(v, default) == IF Truthy(v) THEN v ELSE default

\* A line of toc-full.jsonl after strip(): blank, a text json.loads rejects
\* (JSONDecodeError), or the text of a JSON value.
BlankLine == <<"blank">>
Garbage == <<"garbage">>
Json(v) == <<"json", v>>

\* The outcome of one step of a generator or of the loop body.
Skipped == "skipped"
Handled == "handled"
AttributeError == "AttributeError"

\* extract_stop_events, lines 145-157: the accesses that need a dict.
LocationsOutcome(seg) ==
    LET locations == OrElse(Get(seg, "schedule_location"), JArr(<<>>))
    IN IF ~Truthy(locations) THEN Handled
       ELSE IF \E i \in DOMAIN locations[2] : ~IsDict(locations[2][i])
       THEN AttributeError
       ELSE Handled

\* build_national_graph, lines 241-249: the body of the loop on one yielded
\* schedule, up to the stop extraction.
BodyOutcome(schedule) ==
    IF ~IsDict(schedule) THEN AttributeError
    ELSE LET seg == OrElse(Get(schedule, "schedule_segment"), JObj(<<>>))
             toc == OrElse(Get(schedule, "atoc_code"), JStr(<<>>))
         IN IF ~IsStr(toc) THEN AttributeError
            ELSE IF Strip(toc[2]) = <<>> THEN Handled
            ELSE IF ~IsDict(seg) THEN AttributeError
            ELSE LocationsOutcome(seg)

\* iter_schedules, lines 273-276, on one decoded record.
RecordOutcome(record) ==
    IF ~IsDict(record) THEN AttributeError
    ELSE LET schedule == Get(record, "JsonScheduleV1")
         IN IF ~Truthy(schedule) THEN Skipped ELSE BodyOutcome(schedule)

\* iter_timetable_records, lines 257-265, on one line.
LineOutcome(line) ==
    IF line = BlankLine THEN Skipped
    ELSE IF line = Garbage THEN Skipped
    ELSE RecordOutcome(line[2])

Loc == JObj(<< <<"tiploc_code", JStr(<<"A">>)>> >>)
Segment(locations) == JObj(<< <<"schedule_location", locations>> >>)
ScheduleRecord(payload) == Json(JObj(<< <<"JsonScheduleV1", payload>> >>))
Payload(atoc, seg) == JObj(<< <<"atoc_code", atoc>>, <<"schedule_segment", seg>> >>)

GoodLine == ScheduleRecord(Payload(JStr(<<"x">>), Segment(JArr(<<Loc, Loc>>))))

FeedLines ==
    { BlankLine,
      Garbage,
      Json(JArr(<<JNum(1)>>)),
      Json(JNum(42)),
      Json(JObj(<< <<"TiplocV1", JObj(<< <<"tiploc_code", JStr(<<"A">>)>> >>)>> >>)),
      ScheduleRecord(JNull),
      ScheduleRecord(JStr(<<"x">>)),
      ScheduleRecord(JObj(<< <<"CIF_train_uid", JStr(<<"x">>)>> >>)),
      ScheduleRecord(Payload(JNum(5), Segment(JArr(<<Loc>>)))),
      ScheduleRecord(Payload(JStr(<<"x">>), JStr(<<"x">>))),
      ScheduleRecord(Payload(JStr(<<"x">>), Segment(JArr(<<Loc, JStr(<<"A">>)>>)))),
      GoodLine }

IdleReader ==
    /\ lines = <<>>
    /\ cursor = 0
    /\ processed = <<>>
    /\ aborted = FALSE

StartReader ==
    /\ lines \in SeqsUpTo(FeedLines, MaxLines)
    /\ cursor = 0
    /\ processed = <<>>
    /\ aborted = FALSE

\* One line of the feed goes through iter_timetable_records, iter_schedules
\* and the loop body; an exception leaves the loop and ends the run.
ReadLine ==
    /\ ~aborted
    /\ cursor < Len(lines)
    /\ LET outcome == LineOutcome(lines[cursor + 1])
       IN /\ cursor' = cursor + 1
          /\ aborted' = (outcome = AttributeError)
          /\ processed' = IF outcome = Handled
                          THEN Append(processed, cursor + 1)
                          ELSE processed
    /\ UNCHANGED lines
    /\ UNCHANGED notReader

----------------------------------------------------------------------------
\* dump_tfl_concurrent.py : TflAPI.get_travel_time, _edge_time, edge_processor

IdleTfl ==
    /\ tfl_edges = {}
    /\ fetch = <<>>
    /\ futures = <<>>
    /\ collected = {}
    /\ timed_edges = <<>>
    /\ tfl_pc = "idle"

max_workers == 8

\* What _fetch_tfl_data returns for a journey request: None after an HTTP
\* error or any other exception (lines 51-55), else the decoded JSON: a value
\* that is no dict, or a dict with the durations of its "journeys" (none when
\* the key is absent or the list empty).
FetchFailed == [kind |-> "none", journeys |-> <<>>]
FetchedList == [kind |-> "list", journeys |-> <<>>]
FetchedDict(durations) == [kind |-> "dict", journeys |-> durations]

Responses == {FetchFailed, FetchedList, FetchedDict(<<>>), FetchedDict(<<5, 3>>)}

\* The states of a future.
Pending == <<"pending">>
Started == <<"running">>
Returned(value) == <<"ok", value>>
Raised == <<"raised">>

\* get_travel_time: min(durations) raises ValueError on an empty list.
get_travel_time(timetable) ==
    IF timetable.kind # "dict" THEN Returned(-1)
    ELSE IF timetable.journeys = <<>> THEN Raised
    ELSE Returned(Min(Range(timetable.journeys)))

\* _edge_time, as the value a future holds.
TimedEdge(edge, time) == <<edge[1][1], edge[1][2], edge[2][1], edge[2][2], time>>

IsLineEdge(edge) ==
    /\ edge[1][2] # "GROUND" /\ edge[2][2] # "GROUND"
    /\ edge[1][2] # "HUB" /\ edge[2][2] # "HUB"

WithTime(edge, outcome) ==
    IF outcome = Raised THEN Raised ELSE Returned(TimedEdge(edge, outcome[2]))

edge_time(edge, responses) ==
    IF edge[1][2] = "GROUND" \/ edge[2][2] = "GROUND" THEN Returned(TimedEdge(edge, 2))
    ELSE IF edge[1][2] = "HUB" \/ edge[2][2] = "HUB" THEN Returned(TimedEdge(edge, 2))
    ELSE WithTime(edge, get_travel_time(responses[edge]))

\* The edges main collects (lines 284-308): line hops, station <-> hub,
\* hub <-> ground.
TflEdgePool ==
    { <<<<"S1", "L">>, <<"S2", "L">>>>,
      <<<<"S2", "L">>, <<"S1", "L">>>>,
      <<<<"S1", "L">>, <<"H1", "HUB">>>>,
      <<<<"H1", "HUB">>, <<"H1", "GROUND">>>> }

\* edge_processor, lines 245-249: every edge is submitted.
StartTfl ==
    /\ tfl_edges \in SUBSET TflEdgePool
    /\ fetch \in [{e \in tfl_edges : IsLineEdge(e)} -> Responses]
    /\ futures = [e \in tfl_edges |-> Pending]
    /\ collected = {}
    /\ timed_edges = <<>>
    /\ tfl_pc = "running"

Running == {e \in tfl_edges : futures[e] = Started}
Done == {e \in tfl_edges : futures[e] \notin {Pending, Started}}

\* A worker thread takes a submitted edge; at most max_workers run at once.
TflStartTask ==
    /\ tfl_pc = "running"
    /\ Cardinality(Running) < max_workers
    /\ \E e \in tfl_edges :
         /\ futures[e] = Pending
         /\ futures' = [futures EXCEPT ![e] = Started]
    /\ UNCHANGED <<tfl_edges, fetch, collected, timed_edges, tfl_pc>>
    /\ UNCHANGED notTfl

\* The worker finishes _edge_time: the future holds its result or its exception.
TflFinishTask ==
    /\ \E e \in Running : futures' = [futures EXCEPT ![e] = edge_time(e, fetch)]
    /\ UNCHANGED <<tfl_edges, fetch, collected, timed_edges, tfl_pc>>
    /\ UNCHANGED notTfl

\* Lines 250-251: as_completed yields a finished future and the calling
\* thread appends its result; result() raises the exception of the task.
TflCollect ==
    /\ tfl_pc = "running"
    /\ \E e \in Done \ collected :
         /\ collected' = collected \cup {e}
         /\ IF futures[e] = Raised
            THEN tfl_pc' = "raised" /\ UNCHANGED timed_edges
            ELSE timed_edges' = Append(timed_edges, futures[e][2]) /\ UNCHANGED tfl_pc
    /\ UNCHANGED <<tfl_edges, fetch, futures>>
    /\ UNCHANGED notTfl

\* Line 252
TflReturn ==
    /\ tfl_pc = "running"
    /\ collected = tfl_edges
    /\ tfl_pc' = "returned"
    /\ UNCHANGED <<tfl_edges, fetch, futures, collected, timed_edges>>
    /\ UNCHANGED notTfl

----------------------------------------------------------------------------
\* graph_times.py on the edge file the TfL pass writes: lines.jsonl holds
\* every timed edge of edge_processor (dump_tfl_concurrent.py, lines 311-316).

MaxDescent == 30    \* a run is followed until a distance falls below -MaxDescent

\* The times get_travel_time can return for a line edge.
TravelTimes ==
    {get_travel_time(r)[2] : r \in {s \in Responses : get_travel_time(s) # Raised}}

\* One line with the stations A and B in both directions, their hubs and
\* their ground nodes (main, lines 284-308); _edge_time gives 2 to every
\* edge that touches a HUB or GROUND node.
PersistedRecords(there, back) ==
    << EdgeRecord(<<"A", "GROUND", "A", "HUB">>, 2),
       EdgeRecord(<<"A", "HUB", "A", "GROUND">>, 2),
       EdgeRecord(<<"A", "HUB", "A", "LINE1">>, 2),
       EdgeRecord(<<"A", "LINE1", "A", "HUB">>, 2),
       EdgeRecord(<<"A", "LINE1", "B", "LINE1">>, there),
       EdgeRecord(<<"B", "LINE1", "A", "LINE1">>, back),
       EdgeRecord(<<"B", "LINE1", "B", "HUB">>, 2),
       EdgeRecord(<<"B", "HUB", "B", "LINE1">>, 2),
       EdgeRecord(<<"B", "HUB", "B", "GROUND">>, 2),
       EdgeRecord(<<"B", "GROUND", "B", "HUB">>, 2) >>

PersistedGraphs ==
    {build_graph(PersistedRecords(there, back)) : there, back \in TravelTimes}

\* main, lines 53-57: a run of dijkstra from a GROUND node of the graph.
StartRun ==
    /\ graph \in PersistedGraphs
    /\ start \in {n \in GraphNodes(graph) : is_ground_node(n)}
    /\ distances = DijkstraStart(start).distances
    /\ pq = DijkstraStart(start).pq
    /\ pc = "running"
    /\ todo = {}
    /\ rows = {}

\* One iteration of the while loop, followed as long as the distances are
\* in range.
RunStep ==
    /\ \A n \in Nodes : distances[n] >= -MaxDescent
    /\ DijkstraStep

----------------------------------------------------------------------------
\* national_loader.py : build_station_catalogue
\* An optional string is <<>> when None; load_corpus_extract and
\* load_stop_points never store an empty string.

MaxCorpus == 2      \* TIPLOCs of the CORPUS extract
MaxStops == 2       \* TIPLOCs of the NaPTAN stop points

CorpusRecord(tiploc, name, three_alpha) ==
    [tiploc |-> tiploc, name |-> name, three_alpha |-> three_alpha]

StopPoint(atco, naptan, name, lat, lon, locality) ==
    [atco_code |-> atco, naptan_code |-> naptan, name |-> name, latitude |-> lat,
     longitude |-> lon, locality_name |-> locality]

DictKeys(d) == {d[i][1] : i \in DOMAIN d}

\* Lines 228-232: the CORPUS name when there is one, else the stop point's.
CatalogueName_StopFirst(has_corpus, corpus_entry, has_stop, stop_entry) ==
    IF has_stop THEN stop_entry.name
    ELSE IF has_corpus THEN corpus_entry.name
    ELSE None
CatalogueName(has_corpus, corpus_entry, has_stop, stop_entry) ==
    IF has_corpus /\ corpus_entry.name # None THEN corpus_entry.name
    ELSE IF has_stop THEN stop_entry.name
    ELSE None

\* Lines 234-243.
CatalogueRecord(tiploc, has_corpus, corpus_entry, has_stop, stop_entry) ==
    StationMetadata(
        tiploc,
        CatalogueName(has_corpus, corpus_entry, has_stop, stop_entry),
        IF has_corpus THEN corpus_entry.three_alpha ELSE None,
        IF has_stop THEN stop_entry.atco_code ELSE None,
        IF has_stop THEN stop_entry.naptan_code ELSE None,
        IF has_stop THEN stop_entry.latitude ELSE None,
        IF has_stop THEN stop_entry.longitude ELSE None,
        IF has_stop THEN stop_entry.locality_name ELSE None)

\* Lines 224-226: dict.get returns None for a TIPLOC the source lacks.
CatalogueEntry(tiploc, corpus_dict, stops_dict) ==
    CatalogueRecord(tiploc,
                    DictHas(corpus_dict, tiploc),
                    IF DictHas(corpus_dict, tiploc) THEN DictGet(corpus_dict, tiploc) ELSE None,
                    DictHas(stops_dict, tiploc),
                    IF DictHas(stops_dict, tiploc) THEN DictGet(stops_dict, tiploc) ELSE None)

build_station_catalogue(corpus_dict, stops_dict) ==
    LET all_tiplocs == SortedIds(DictKeys(corpus_dict) \cup DictKeys(stops_dict))
    IN [i \in DOMAIN all_tiplocs |->
           <<all_tiplocs[i], CatalogueEntry(all_tiplocs[i], corpus_dict, stops_dict)>>]

TIPLOC_A == <<"A">>
TIPLOC_B == <<"B">>
TIPLOC_T == <<"T">>

CorpusPool ==
    { <<TIPLOC_A, CorpusRecord(TIPLOC_A, <<"O", "x">>, <<"X">>)>>,
      <<TIPLOC_A, CorpusRecord(TIPLOC_A, <<>>, <<"X">>)>>,
      <<TIPLOC_B, CorpusRecord(TIPLOC_B, <<>>, <<>>)>>,
      <<TIPLOC_T, CorpusRecord(TIPLOC_T, <<"B">>, <<>>)>> }

StopPointPool ==
    { <<TIPLOC_A, StopPoint(<<"9", "1", "0", "G", "A">>, <<"1">>, <<"A", "x">>,
                            Some(515), Some(-1), <<"B">>)>>,
      <<TIPLOC_A, StopPoint(<<"9", "1", "0", "G", "A">>, <<>>, <<"9", "1", "0", "G", "A">>,
                            <<>>, <<>>, <<>>)>>,
      <<TIPLOC_B, StopPoint(<<"9", "1", "0", "G", "B">>, <<>>, <<"B", "x">>,
                            Some(535), <<>>, <<>>)>>,
      <<TIPLOC_T, StopPoint(<<"9", "4", "0", "G", "T">>, <<>>, <<"T">>, <<>>, <<>>,
                            <<"B">>)>> }

IdleCatalogue ==
    /\ corpus = <<>>
    /\ stop_points = <<>>
    /\ station_catalogue = <<>>
    /\ catalogued = FALSE

StartCatalogue ==
    /\ corpus \in {c \in SeqsUpTo(CorpusPool, MaxCorpus) : DistinctIds(c)}
    /\ stop_points \in {c \in SeqsUpTo(StopPointPool, MaxStops) : DistinctIds(c)}
    /\ station_catalogue = <<>>
    /\ catalogued = FALSE

BuildCatalogue ==
    /\ ~catalogued
    /\ station_catalogue' = build_station_catalogue(corpus, stop_points)
    /\ catalogued' = TRUE
    /\ UNCHANGED <<corpus, stop_points>>
    /\ UNCHANGED notCatalogue

----------------------------------------------------------------------------
\* The specifications, one per component.

IdleRest == IdleStations /\ IdleReader /\ IdleTfl /\ IdleCatalogue

InitTfl ==
    /\ StartTfl /\ IdleMerge /\ IdlePaths /\ IdleTime /\ IdleClass /\ IdleHeadway
    /\ IdleBuild /\ IdleStations /\ IdleReader /\ IdleCatalogue
NextTfl == TflStartTask \/ TflFinishTask \/ TflCollect \/ TflReturn
SpecTfl == InitTfl /\ [][NextTfl]_vars

InitMerge == StartMerge /\ IdlePaths /\ IdleTime /\ IdleClass /\ IdleHeadway /\ IdleBuild /\ IdleRest
NextMerge == MergeNew \/ MergeAgain
SpecMerge == InitMerge /\ [][NextMerge]_vars

InitDijkstra ==
    StartDijkstra /\ IdleMerge /\ IdleTime /\ IdleClass /\ IdleHeadway /\ IdleBuild /\ IdleRest
NextDijkstra == DijkstraStep \/ DijkstraDone
SpecDijkstra == InitDijkstra /\ [][NextDijkstra]_vars

InitPaths == StartMain /\ IdleMerge /\ IdleTime /\ IdleClass /\ IdleHeadway /\ IdleBuild /\ IdleRest
NextPaths == MainSkip \/ MainRun
SpecPaths == InitPaths /\ [][NextPaths]_vars

InitTime == StartTime /\ IdleMerge /\ IdlePaths /\ IdleClass /\ IdleHeadway /\ IdleBuild /\ IdleRest
NextTime == ParseToken
SpecTime == InitTime /\ [][NextTime]_vars

InitClass == StartClass /\ IdleMerge /\ IdlePaths /\ IdleTime /\ IdleHeadway /\ IdleBuild /\ IdleRest
NextClass == Classify
SpecClass == InitClass /\ [][NextClass]_vars

InitHeadway == StartHeadway /\ IdleMerge /\ IdlePaths /\ IdleTime /\ IdleClass /\ IdleBuild /\ IdleRest
NextHeadway == ComputeHeadways
SpecHeadway == InitHeadway /\ [][NextHeadway]_vars

InitStations ==
    /\ StartStations /\ IdleMerge /\ IdlePaths /\ IdleTime /\ IdleClass /\ IdleHeadway
    /\ IdleBuild /\ IdleReader /\ IdleTfl /\ IdleCatalogue
NextStations == MergeStations \/ FilterGround \/ EnsureUnique \/ WriteStations
SpecStations == InitStations /\ [][NextStations]_vars

InitRuns ==
    StartRun /\ IdleMerge /\ IdleTime /\ IdleClass /\ IdleHeadway /\ IdleBuild /\ IdleRest
NextRuns == RunStep \/ DijkstraDone
SpecRuns == InitRuns /\ [][NextRuns]_vars

InitPipeline ==
    /\ StartPipeline /\ IdlePaths /\ IdleTime /\ IdleClass /\ IdleHeadway
    /\ IdleBuild /\ IdleReader /\ IdleTfl /\ IdleCatalogue
NextPipeline == MergeStations \/ FilterGround \/ EnsureUnique \/ WriteStations \/ UpdateLines
SpecPipeline == InitPipeline /\ [][NextPipeline]_vars

InitLoad == StartLoad /\ IdlePaths /\ IdleTime /\ IdleClass /\ IdleHeadway /\ IdleBuild /\ IdleRest
NextLoad == MergeNew \/ MergeAgain
SpecLoad == InitLoad /\ [][NextLoad]_vars

InitCatalogue ==
    /\ StartCatalogue /\ IdleMerge /\ IdlePaths /\ IdleTime /\ IdleClass /\ IdleHeadway
    /\ IdleBuild /\ IdleStations /\ IdleReader /\ IdleTfl
NextCatalogue == BuildCatalogue
SpecCatalogue == InitCatalogue /\ [][NextCatalogue]_vars

InitReader ==
    /\ StartReader /\ IdleMerge /\ IdlePaths /\ IdleTime /\ IdleClass /\ IdleHeadway
    /\ IdleBuild /\ IdleStations /\ IdleTfl /\ IdleCatalogue
NextReader == ReadLine
SpecReader == InitReader /\ [][NextReader]_vars

InitBuild == StartBuild /\ IdlePaths /\ IdleTime /\ IdleClass /\ IdleHeadway /\ IdleRest
NextBuild == ProcessNext \/ FinishBuild \/ MergeBatch
SpecBuild == InitBuild /\ [][NextBuild]_vars

----------------------------------------------------------------------------
\* C1: after merge_line_edges, the stored weight of every key is the minimum
\* of its previously stored weight (if any) and all new weights supplied for
\* it; a key not yet present is inserted with its weight, and no other key
\* appears.
SuppliedWeights(k) == {new_edges[i].time : i \in {j \in DOMAIN new_edges : KeyOf(new_edges[j]) = k}}

PreviousWeights(k) == IF HasKey(before, k) THEN {StoredWeight(before, k)} ELSE {}

C2_MergeIdempotent ==
    repeat => /\ records = before
              /\ Len(records) = Len(before)
              /\ updates = 0
              /\ inserts = 0

C2_Witness ==
    /\ repeat
    /\ Len(new_edges) = 2
    /\ new_edges[1].time = 10 /\ new_edges[2].time = 7
    /\ KeyOf(new_edges[1]) = KeyOf(new_edges[2])
    /\ records = before
    /\ updates = 0 /\ inserts = 0

----------------------------------------------------------------------------
\* C4: when a single-source run is done, every node carries the least total
\* weight of a directed path from the start (0 for the start, Inf when there
\* is none); in the worked example GROUND_A to GROUND_B is 19.
C4_DijkstraShortest ==
    pc = "done" =>
        /\ distances = ShortestFrom(graph, start)
        /\ distances[start] = 0
        /\ (graph = ExampleGraph /\ start = GROUND_A) => distances[GROUND_B] = 19

C4_Witness ==
    /\ pc = "done"
    /\ graph = ExampleGraph
    /\ start = GROUND_A
    /\ distances[GROUND_B] = 19
    /\ distances[LINE1_A] = 5

\* C5: every row of the output goes from a GROUND node to another GROUND
\* node of the graph, between two different stations, and carries the finite
\* distance between them; nothing is written for a self-pair, an unreachable
\* pair, or a HUB or line node.
GroundStations(g) == {n[1] : n \in {m \in GraphNodes(g) : m[2] = "GROUND"}}

C5_RowsGroundOnly ==
    \A r \in rows :
        /\ r.from_station \in GroundStations(graph)
        /\ r.to_station \in GroundStations(graph)
        /\ r.from_station # r.to_station
        /\ r.time # Inf
        /\ r.time = ShortestFrom(graph, <<r.from_station, "GROUND">>)[<<r.to_station, "GROUND">>]

C5_Witness ==
    /\ graph = ExampleGraph
    /\ todo = {}
    /\ rows = {[from_station |-> "A", to_station |-> "B", time |-> 19]}

----------------------------------------------------------------------------
\* C6: the non-empty values one TimeNormalizer instance returns are
\* non-decreasing in call order.
C6_ParseNonDecreasing ==
    \A i, j \in DOMAIN emitted : i <= j => emitted[i] <= emitted[j]

\* C7: a token whose value on the current day is below the last value emitted
\* moves the day offset on by exactly one; every value returned is the token's
\* time of day plus 1440 minutes per accumulated day; the offset never goes
\* back; 2350 then 0010 on a fresh instance gives 1450 for the second.
C7_Rollover ==
    [][ /\ day_offset' >= day_offset
        /\ (out' # None /\ emitted' # emitted) =>
              /\ out'[1] = BaseMinutes(raw')[1] + day_offset' * DayUnits
              /\ (emitted # <<>> /\
                  BaseMinutes(raw')[1] + day_offset * DayUnits < emitted[Len(emitted)])
                    => day_offset' = day_offset + 1
              /\ (emitted = <<1430 * UnitsPerMinute>> /\ raw = T_2350 /\ raw' = T_0010)
                    => out'[1] = 1450 * UnitsPerMinute
      ]_vars

C7_Witness ==
    /\ emitted = <<1430 * UnitsPerMinute, 1450 * UnitsPerMinute, 2010 * UnitsPerMinute>>
    /\ raw = T_930
    /\ day_offset = 1

----------------------------------------------------------------------------
\* C8: classify_service rejects exactly the schedules whose category reads
\* BR, BS or DD once trimmed and upper-cased, whatever the stop ratio.
C8_RejectsNonPassenger ==
    classified => (variant = None <=> category \in RejectedSpellings)

C8_Witness ==
    /\ classified
    /\ category = <<"b", "S", " ">>
    /\ stop_ratio = Ratio(10, 10)
    /\ variant = None

\* C9: an accepted schedule is slow exactly when its stop ratio is at least
\* 0.70, express otherwise; 7 of 10 is slow and 0.69 is express.
C9_SlowThreshold ==
    (classified /\ category \in AcceptedSpellings) =>
        /\ variant = (IF stop_ratio.num * 10 >= 7 * stop_ratio.den
                      THEN Some("slow") ELSE Some("express"))
        /\ stop_ratio = Ratio(7, 10) => variant = Some("slow")
        /\ stop_ratio = Ratio(69, 100) => variant = Some("express")

C9_Witness ==
    /\ classified
    /\ category = <<"O", "O">>
    /\ stop_ratio = Ratio(7, 10)
    /\ variant = Some("slow")

\* C10 as stated: with two departures or more, the headway is the least of
\* all gaps between consecutive sorted departures and the wrap-around gap.
DistinctTimes(times) == Range(times)
PositiveGaps(times) ==
    {b - a : <<a, b>> \in {p \in DistinctTimes(times) \X DistinctTimes(times) :
                              /\ p[1] < p[2]
                              /\ ~\E c \in DistinctTimes(times) : p[1] < c /\ c < p[2]}}
LastToFirstGap(times) ==
    Min(DistinctTimes(times)) + 1440 * UnitsPerMinute
        - (CHOOSE x \in DistinctTimes(times) : \A y \in DistinctTimes(times) : y <= x)
HasRepeatedTime(times) == Cardinality(DistinctTimes(times)) < Len(times)

C10_HeadwayMinOfAllGaps ==
    headways # <<>> =>
        \A k \in DOMAIN departures :
            Len(departures[k]) >= 2 =>
                headways[k] = Min(PositiveGaps(departures[k])
                                    \cup {LastToFirstGap(departures[k])}
                                    \cup (IF HasRepeatedTime(departures[k]) THEN {0} ELSE {}))

\* C10, amended: the least of the strictly positive gaps between consecutive
\* sorted departures and the wrap-around gap (the zero gap between two equal
\* departure times is left out); [100, 130, 160] gives 30.
C10_HeadwayMinOfPositiveGaps ==
    headways # <<>> =>
        \A k \in DOMAIN departures :
            /\ Len(departures[k]) >= 2 =>
                headways[k] = Min(PositiveGaps(departures[k])
                                    \cup {LastToFirstGap(departures[k])})
            /\ departures[k] = <<100 * UnitsPerMinute, 130 * UnitsPerMinute,
                                 160 * UnitsPerMinute>>
                 => headways[k] = 30 * UnitsPerMinute

C10_Witness ==
    /\ headways # <<>>
    /\ \E k \in DOMAIN departures :
         /\ departures[k] = <<160 * UnitsPerMinute, 100 * UnitsPerMinute,
                              130 * UnitsPerMinute>>
         /\ headways[k] = 30 * UnitsPerMinute
    /\ \E k \in DOMAIN departures :
         /\ departures[k] = <<130 * UnitsPerMinute, 130 * UnitsPerMinute,
                              100 * UnitsPerMinute>>
         /\ headways[k] = 30 * UnitsPerMinute

----------------------------------------------------------------------------
\* C3: whatever the order in which one pass processes the schedules of the
\* feed, and whatever the order in which the edge batches are merged, the
\* resulting edge records (keys and weights), headways and station records
\* are the same collection.
SameRecords(a, b) == Range(a) = Range(b) /\ Len(a) = Len(b)

C3_OrderIndependent ==
    phase = "built" =>
        /\ SameRecords(platform_edges, GraphInFeedOrder.edges)
        /\ SameRecords(station_usage, GraphInFeedOrder.stations)
        /\ SameRecords(line_headways, GraphInFeedOrder.headways)
        /\ (\A n \in DOMAIN batches : batches[n].merged)
             => SameRecords(records, MergedInFixedOrder)

\* Two schedules give the key A -> B travel times of 10 and 7.5 minutes; they
\* were processed in another order than the feed's and the national batch was
\* merged before the other one, so the lists differ in order only.
C3_Witness ==
    /\ phase = "built"
    /\ \A n \in DOMAIN batches : batches[n].merged
    /\ \E i, j \in DOMAIN feed :
         LET key == <<"910GA", "x-slow", "910GB", "x-slow">>
             one == ProcessSchedule(EmptyGraph, feed[i], Catalogue).edge_costs
             two == ProcessSchedule(EmptyGraph, feed[j], Catalogue).edge_costs
         IN /\ DictHas(one, key) /\ DictGet(one, key) = 10 * UnitsPerMinute
            /\ DictHas(two, key) /\ DictGet(two, key) = 15
            /\ DictGet(edge_costs, key) = 15
    /\ platform_edges # GraphInFeedOrder.edges
    /\ records # MergedInFixedOrder
    /\ new_edges = batches["other"].edges
    /\ updates > 0

----------------------------------------------------------------------------
\* C11: merge_station_metadata never replaces a populated field of an existing
\* record by an unset value: each of station_name, code, latitude, longitude,
\* atco_code, naptan_code and locality that was populated before the merge is
\* populated after it.  (Lines 92-93 assign meta.latitude and meta.longitude
\* whatever they are.)
MergedFields ==
    {"station_name", "code", "latitude", "longitude", "atco_code", "naptan_code",
     "locality"}

C11_KeepsPopulated ==
    stage = "merged" =>
        \A i \in DOMAIN prior : \A f \in MergedFields :
            prior[i][2][f] # <<>> => DictGet(stations, prior[i][1])[f] # <<>>

\* C12: after merge_station_metadata, filter_ground_nodes,
\* ensure_unique_station_names and write_station_records, no persisted station
\* record has an id that starts with HUB.
C12_NoHubPersisted ==
    stage = "written" =>
        \A i \in DOMAIN persisted :
            LET id == persisted[i].station_id
            IN ~(Len(id) >= 3 /\ id[1] = "H" /\ id[2] = "U" /\ id[3] = "B")

\* The loaded catalogue held the ground record of a hub, and other records
\* were written.
C12_Witness ==
    /\ stage = "written"
    /\ DictHas(prior, ID_HUB)
    /\ persisted # <<>>
    /\ Len(persisted) < Len(prior) + Len(national)

\* C13: in every group of stations whose display names collide
\* case-insensitively, the station with the lowest id keeps its name and every
\* other station gets " [suffix]" appended, the suffix being its code, else its
\* tiploc, else its id; the names are those the records give in sorted order,
\* whatever the order of insertion.
GroupOf(recs, item) ==
    {recs[j][1] : j \in {k \in DOMAIN recs :
                            Casefold(DisplayName(recs[k])) = Casefold(DisplayName(item))}}

IsLowest(ids, id) == \A other \in ids \ {id} : StrLess(id, other)

StartsWith(str, prefix) ==
    Len(str) >= Len(prefix) /\ SubSeq(str, 1, Len(prefix)) = prefix

SuffixedName(item) ==
    DisplayName(item) \o <<" ", "[">>
        \o (IF item[2].code # <<>> THEN item[2].code
            ELSE IF item[2].tiploc # <<>> THEN item[2].tiploc
            ELSE item[1])
        \o <<"]">>

InSortedOrder(recs) ==
    LET ordered == SortedIds({recs[i][1] : i \in DOMAIN recs})
    IN [i \in DOMAIN ordered |-> <<ordered[i], DictGet(recs, ordered[i])>>]

C13_LowestKeepsName ==
    stage = "named" =>
        /\ \A i \in DOMAIN unnamed :
              Cardinality(GroupOf(unnamed, unnamed[i])) >= 2 =>
                  IF IsLowest(GroupOf(unnamed, unnamed[i]), unnamed[i][1])
                  THEN DictGet(stations, unnamed[i][1]).station_name
                           = DisplayName(unnamed[i])
                  ELSE /\ StartsWith(DictGet(stations, unnamed[i][1]).station_name,
                                     SuffixedName(unnamed[i]))
                       /\ DictGet(stations, unnamed[i][1]).station_name
                              # DisplayName(unnamed[i])
        /\ Range(stations) = Range(ensure_unique_station_names(InSortedOrder(unnamed)))

\* Three stations collide on "ox"; the lowest id was inserted last, and two of
\* the others share the suffix, so that the counter is used.
C13_Witness ==
    /\ stage = "named"
    /\ Len(unnamed) = 3
    /\ unnamed[3][1] = ID_A
    /\ Cardinality(GroupOf(unnamed, unnamed[1])) = 3
    /\ DictGet(stations, ID_A).station_name = <<"O", "x">>
    /\ DictGet(stations, ID_B).station_name = <<"o", "x", " ", "[", "X", "]">>
    /\ DictGet(stations, ID_T).station_name
          = <<"O", "X", " ", "[", "x", "]", " ", "#", "1">>

\* C14: after ensure_unique_station_names no two station records have display
\* names that are equal case-insensitively.  (seen is per group: a suffixed
\* name can meet the name of a station of another group.)
C14_NamesUnique ==
    stage = "named" =>
        \A i, j \in DOMAIN stations :
            i # j => Casefold(stations[i][2].station_name)
                        # Casefold(stations[j][2].station_name)

\* C15: every edge record that reaches the persisted edge collection has a
\* time that is a whole number of minutes and at least 1; here for the timed
\* edges of TflAPI.edge_processor, which main writes to lines.jsonl.
\* (get_travel_time returns -1 when the fetch gave no dict.)
C15_PositiveTimes ==
    \A i \in DOMAIN timed_edges : timed_edges[i][5] \in Nat \ {0}

\* C18: a travel-time fetch that fails or returns no usable journey data
\* does not keep edge_processor from completing, and every other submitted
\* edge gets its timed edge.  (min of an empty list raises ValueError, which
\* future.result() raises again in the calling thread.)
C18_EdgeProcessorCompletes ==
    /\ tfl_pc # "raised"
    /\ tfl_pc = "returned" =>
          \A e \in tfl_edges :
              \E i \in DOMAIN timed_edges :
                  SubSeq(timed_edges[i], 1, 4) = <<e[1][1], e[1][2], e[2][1], e[2][2]>>

\* C16: a schedule without a usable operator code, without a usable category
\* code, or of a non-passenger category contributes nothing: the graph is the
\* one of the feed without these schedules.  (classify_service rejects BR, BS
\* and DD only; a schedule without category is classified by its stop ratio.)
Usable(schedule) ==
    /\ Strip(schedule.atoc_code) # <<>>
    /\ Strip(schedule.CIF_train_category) # <<>>
    /\ Upper(Strip(schedule.CIF_train_category)) \notin {<<"B", "R">>, <<"B", "S">>, <<"D", "D">>}

GraphOfUsable == FinishGraph(BuildInOrder(EmptyGraph, SelectSeq(feed, Usable), 1))

C16_DropsUnusable ==
    phase = "built" =>
        /\ SameRecords(platform_edges, GraphOfUsable.edges)
        /\ SameRecords(line_headways, GraphOfUsable.headways)
        /\ SameRecords(station_usage, GraphOfUsable.stations)

\* C20: a platform edge (from, line) -> (to, line) is emitted for two
\* consecutive StopEvents of an accepted schedule exactly when the departure of
\* the first and the arrival of the second are known and the elapsed time is
\* at least half a minute; per key there is one edge, its weight the ceiling of
\* the smallest elapsed time over the schedules of the pass, which is the
\* smallest of the ceilings.
StopsOf(schedule) == extract_stop_events(schedule.schedule_location, Catalogue)

LineOf(schedule) ==
    LineName(Lower(Strip(schedule.atoc_code)),
             classify_service(schedule.CIF_train_category, StopsOf(schedule).ratio)[1])

Accepted(schedule) ==
    LET ex == StopsOf(schedule)
    IN /\ Strip(schedule.atoc_code) # <<>>
       /\ Len(ex.stops) >= 2
       /\ classify_service(schedule.CIF_train_category, ex.ratio) # None

\* The pairs <<key, elapsed half-minutes>> of the pass.
HopsOf(schedule) ==
    LET stops == StopsOf(schedule).stops
        line == LineOf(schedule)
    IN { << <<stops[i].station_id, line, stops[i + 1].station_id, line>>,
            stops[i + 1].arrival[1] - stops[i].departure[1] >> :
         i \in {j \in 1..(Len(stops) - 1) :
                   /\ stops[j].departure # <<>>
                   /\ stops[j + 1].arrival # <<>>
                   /\ 2 * (stops[j + 1].arrival[1] - stops[j].departure[1])
                        >= UnitsPerMinute} }

Hops == UNION {HopsOf(feed[n]) : n \in {m \in DOMAIN feed : Accepted(feed[m])}}

ElapsedIn(hops, key) == {h[2] : h \in {g \in hops : g[1] = key}}
Elapsed(key) == ElapsedIn(Hops, key)

WholeMinutes(units) ==
    CHOOSE m \in 0..units :
        m * UnitsPerMinute >= units /\ (m - 1) * UnitsPerMinute < units

PlatformToPlatform ==
    {i \in DOMAIN platform_edges :
        /\ platform_edges[i].from_line \notin {"HUB", "GROUND"}
        /\ platform_edges[i].to_line \notin {"HUB", "GROUND"}}

C20_PlatformEdges ==
    phase = "built" =>
        LET hops == Hops
        IN /\ {KeyOf(platform_edges[i]) : i \in PlatformToPlatform} = {h[1] : h \in hops}
           /\ \A i, j \in PlatformToPlatform :
                 KeyOf(platform_edges[i]) = KeyOf(platform_edges[j]) => i = j
           /\ \A i \in PlatformToPlatform :
                 /\ platform_edges[i].time
                       = WholeMinutes(Min(ElapsedIn(hops, KeyOf(platform_edges[i]))))
                 /\ platform_edges[i].time
                       = Min({WholeMinutes(e) :
                               e \in ElapsedIn(hops, KeyOf(platform_edges[i]))})

\* Two schedules give A -> B elapsed times of 6 and 7.5 minutes, the edge has
\* 6; the hop B -> C of no elapsed time and the hop from C, whose departure
\* is unknown, give no edge.
C20_Witness ==
    /\ phase = "built"
    /\ \E n \in DOMAIN feed : feed[n] = NoCategory
    /\ Elapsed(<<"910GA", "x-slow", "910GB", "x-slow">>) = {12, 15}
    /\ \E i \in PlatformToPlatform :
          /\ KeyOf(platform_edges[i]) = <<"910GA", "x-slow", "910GB", "x-slow">>
          /\ platform_edges[i].time = 6
    /\ \A i \in PlatformToPlatform : platform_edges[i].from_id # "910GB"

----------------------------------------------------------------------------
\* C19: a merge only grows or tightens the edge collection: every record
\* stays at its position with its key, no previously present key disappears,
\* no stored weight increases, and a key that does not occur in the merged
\* batch keeps exactly the weight it had.
BatchKeys(batch) == {KeyOf(batch[i]) : i \in DOMAIN batch}

GrownOrTightened(old, new, batch) ==
    /\ Len(new) >= Len(old)
    /\ \A i \in 1..Len(old) :
          /\ KeyOf(new[i]) = KeyOf(old[i])
          /\ new[i].time <= old[i].time
    /\ \A k \in MergeKeys :
          HasKey(old, k) =>
              /\ HasKey(new, k)
              /\ StoredWeight(new, k) <= StoredWeight(old, k)
              /\ k \notin BatchKeys(batch) =>
                    StoredWeight(new, k) = StoredWeight(old, k)

----------------------------------------------------------------------------
\* C17: a malformed or undecodable record of the timetable feed (no valid
\* JSON, a decodable line that is no schedule object, a schedule payload
\* without the expected fields) is skipped individually: the run is not
\* aborted and every following schedule is processed.
C17_SkipsMalformed ==
    /\ ~aborted
    /\ \A i \in 1..cursor : lines[i] = GoodLine => i \in Range(processed)

----------------------------------------------------------------------------
\* C21: for every (station, line) with a known headway the emitted graph has
\* exactly one line->HUB edge, of cost 2, and exactly one HUB->line edge,
\* whose cost is the least whole number of minutes that is no less than the
\* lesser of half the headway and 25.
EdgesWithKey(edges, key) == {i \in DOMAIN edges : KeyOf(edges[i]) = key}

\* The least n with n minutes >= min(headway / 2, 25), headway in half-minutes.
CappedHalf(headway) ==
    LET quarters == Min({headway, MAX_WAIT_MINUTES * 2 * UnitsPerMinute})
    IN CHOOSE n \in 0..MAX_WAIT_MINUTES :
           /\ n * 2 * UnitsPerMinute >= quarters
           /\ \A m \in 0..MAX_WAIT_MINUTES : m * 2 * UnitsPerMinute >= quarters => n <= m

C21_HubEdges ==
    phase = "built" =>
        \A h \in DOMAIN line_headways :
            LET station_id == line_headways[h][1][1]
                line_name == line_headways[h][1][2]
                up == EdgesWithKey(platform_edges, <<station_id, line_name, station_id, "HUB">>)
                down == EdgesWithKey(platform_edges, <<station_id, "HUB", station_id, line_name>>)
            IN /\ Cardinality(up) = 1
               /\ Cardinality(down) = 1
               /\ \A i \in up : platform_edges[i].time = 2
               /\ \A i \in down : platform_edges[i].time = CappedHalf(line_headways[h][2])

\* One station-line on the fallback headway of 30 minutes (wait 15), one
\* with a headway of an hour or more (wait 25).
C21_Witness ==
    /\ phase = "built"
    /\ \E h, g \in DOMAIN line_headways :
          /\ line_headways[h][2] = 30 * UnitsPerMinute
          /\ line_headways[g][2] >= 60 * UnitsPerMinute
          /\ \E i, j \in DOMAIN platform_edges :
                /\ KeyOf(platform_edges[i]) = <<line_headways[h][1][1], "HUB",
                                                line_headways[h][1][1], line_headways[h][1][2]>>
                /\ platform_edges[i].time = 15
                /\ KeyOf(platform_edges[j]) = <<line_headways[g][1][1], "HUB",
                                                line_headways[g][1][1], line_headways[g][1][2]>>
                /\ platform_edges[j].time = 25

----------------------------------------------------------------------------
\* C22: the stop ratio extract_stop_events returns for a schedule is the
\* number of public stops divided by the number of timing points of the
\* schedule's location sequence, and 0 when the sequence has none.
IsPublicStop(loc) == Or(loc.public_arrival, loc.public_departure) # <<>>

PublicStops(locations) == Cardinality({i \in DOMAIN locations : IsPublicStop(locations[i])})

C22_StopRatio ==
    \A n \in DOMAIN feed \ pending :
        LET locations == feed[n].schedule_location
            ratio == StopsOf(feed[n]).ratio
        IN IF Len(locations) = 0 THEN ratio.num = 0
           ELSE ratio.num * Len(locations) = PublicStops(locations) * ratio.den

----------------------------------------------------------------------------
\* C23: build_station_catalogue yields exactly one record per TIPLOC of
\* either source; the name is the CORPUS name when that is set and else the
\* stop point's name; coordinates and locality are the stop point's; a field
\* on which both sources are silent is None.
CorpusOf(tiploc) == {corpus[i][2] : i \in {j \in DOMAIN corpus : corpus[j][1] = tiploc}}
StopOf(tiploc) == {stop_points[i][2] : i \in {j \in DOMAIN stop_points : stop_points[j][1] = tiploc}}

NameFrom(tiploc) ==
    LET reference == {c.name : c \in {d \in CorpusOf(tiploc) : d.name # None}}
    IN IF reference # {} THEN reference
       ELSE IF StopOf(tiploc) # {} THEN {s.name : s \in StopOf(tiploc)}
       ELSE {None}

FromStop(tiploc, field) ==
    IF StopOf(tiploc) = {} THEN {None} ELSE {s[field] : s \in StopOf(tiploc)}

FromCorpus(tiploc, field) ==
    IF CorpusOf(tiploc) = {} THEN {None} ELSE {c[field] : c \in CorpusOf(tiploc)}

C23_CatalogueMerge ==
    catalogued =>
        /\ DictKeys(station_catalogue) = DictKeys(corpus) \cup DictKeys(stop_points)
        /\ DistinctIds(station_catalogue)
        /\ \A i \in DOMAIN station_catalogue :
              LET tiploc == station_catalogue[i][1]
                  meta == station_catalogue[i][2]
              IN /\ meta.tiploc = tiploc
                 /\ meta.name \in NameFrom(tiploc)
                 /\ meta.latitude \in FromStop(tiploc, "latitude")
                 /\ meta.longitude \in FromStop(tiploc, "longitude")
                 /\ meta.locality_name \in FromStop(tiploc, "locality_name")
                 /\ meta.atco_code \in FromStop(tiploc, "atco_code")
                 /\ meta.naptan_code \in FromStop(tiploc, "naptan_code")
                 /\ meta.three_alpha \in FromCorpus(tiploc, "three_alpha")

\* A has a CORPUS name and a stop point with another name and coordinates;
\* B is in CORPUS only, without a name: every field but the TIPLOC is None.
C23_Witness ==
    /\ catalogued
    /\ Len(station_catalogue) = 2
    /\ station_catalogue[1][1] = TIPLOC_A
    /\ station_catalogue[1][2].name = <<"O", "x">>
    /\ station_catalogue[1][2].latitude = Some(515)
    /\ station_catalogue[1][2].locality_name = <<"B">>
    /\ \E s \in StopOf(TIPLOC_A) : s.name = <<"A", "x">>
    /\ station_catalogue[2][1] = TIPLOC_B
    /\ station_catalogue[2][2].name = None
    /\ station_catalogue[2][2].latitude = None
    /\ station_catalogue[2][2].three_alpha = None
    /\ StopOf(TIPLOC_B) = {}

----------------------------------------------------------------------------
\* C24: every single-source run on an edge collection the pipeline can
\* persist terminates.  The loop pushes a node each time its distance
\* improves, and a distance is the length of a walk from the start; a walk
\* without a repeated node is no shorter than the sum of the negative weights
\* of the graph.  So a run terminates exactly when no distance ever falls
\* below that sum: a distance below it is a walk through a cycle of negative
\* length, which the loop then goes round without end.
RECURSIVE SumOfNegative(_, _)
SumOfNegative(g, edges) ==
    IF edges = {} THEN 0
    ELSE LET e == CHOOSE x \in edges : TRUE
         IN (IF g[e] < 0 THEN g[e] ELSE 0) + SumOfNegative(g, edges \ {e})

C24_RunTerminates ==
    pc \in {"running", "done"} =>
        \A n \in Nodes : distances[n] >= SumOfNegative(graph, DOMAIN graph)

----------------------------------------------------------------------------
\* C25: whatever the interleaving and completion order of the workers, the
\* call of edge_processor ends by returning a list with exactly one timed
\* edge for each submitted edge: none lost, none duplicated.
EdgeOf(timed) == <<<<timed[1], timed[2]>>, <<timed[3], timed[4]>>>>

OnePerEdge ==
    /\ Len(timed_edges) = Cardinality(tfl_edges)
    /\ {EdgeOf(timed_edges[i]) : i \in DOMAIN timed_edges} = tfl_edges

C25_OneTimedEdgePerEdge ==
    tfl_pc \in {"returned", "raised"} => (tfl_pc = "returned" /\ OnePerEdge)

----------------------------------------------------------------------------
\* C26: in the emitted graph every line node (station, line) at an end of a
\* platform-to-platform edge has a line->HUB edge and a HUB->line edge at its
\* own station, also where the line only terminates.
LineNodes ==
    UNION {{<<platform_edges[i].from_id, platform_edges[i].from_line>>,
            <<platform_edges[i].to_id, platform_edges[i].to_line>>} :
           i \in PlatformToPlatform}

HasEdge(key) == \E i \in DOMAIN platform_edges : KeyOf(platform_edges[i]) = key

C26_LineNodesReachHub ==
    phase = "built" =>
        \A node \in LineNodes :
            /\ HasEdge(<<node[1], node[2], node[1], "HUB">>)
            /\ HasEdge(<<node[1], "HUB", node[1], node[2]>>)

----------------------------------------------------------------------------
\* C27: after the update pipeline has run, every GROUND node of the persisted
\* edge collection has a record in the persisted station catalogue, also a
\* ground station of the TfL pass whose id is a hub code.
GroundIds ==
    {records[i].from_id : i \in {j \in DOMAIN records : records[j].from_line = "GROUND"}}
        \cup {records[i].to_id : i \in {j \in DOMAIN records : records[j].to_line = "GROUND"}}

C27_GroundNodesHaveRecords ==
    stage = "updated" =>
        \A id \in GroundIds : \E i \in DOMAIN persisted : persisted[i].station_id = id

----------------------------------------------------------------------------
\* C28: for every edge file, blank lines and repeated keys included, the
\* index of load_line_records maps each key to the position in records of a
\* record with that key, so a merge changes the weight of the keys of its
\* batch and of no other key.
IndexPointsAtKey ==
    \A k \in DOMAIN index :
        /\ index[k] + 1 \in DOMAIN records
        /\ KeyOf(records[index[k] + 1]) = k

C28_IndexMatchesRecords ==
    /\ IndexPointsAtKey
    /\ \A k \in MergeKeys :
          (HasKey(before, k) /\ k \notin BatchKeys(new_edges)) =>
              /\ HasKey(records, k)
              /\ StoredWeight(records, k) = StoredWeight(before, k)

----------------------------------------------------------------------------
\* C29: the headway of every station-line is strictly positive and at most
\* 1440 minutes (two identical departure times are no gap of zero), and
\* every HUB->line wait edge costs a whole number of minutes from 1 to 25.
WaitEdges ==
    {i \in DOMAIN platform_edges :
        /\ platform_edges[i].from_line = "HUB"
        /\ platform_edges[i].to_line \notin {"HUB", "GROUND"}}

C29_HeadwayBounds ==
    phase = "built" =>
        /\ \A h \in DOMAIN line_headways :
              /\ line_headways[h][2] > 0
              /\ line_headways[h][2] <= 1440 * UnitsPerMinute
        /\ \A i \in WaitEdges : platform_edges[i].time \in 1..25

\* The same departure time recorded twice for a station-line: the headway
\* is the 1440 minutes of the wrap-around and the wait edge costs 25.
C29_Witness ==
    /\ phase = "built"
    /\ \E d \in DOMAIN dep_times, h \in DOMAIN line_headways :
          /\ Len(dep_times[d][2]) = 2
          /\ dep_times[d][2][1] = dep_times[d][2][2]
          /\ line_headways[h][1] = dep_times[d][1]
          /\ line_headways[h][2] = 1440 * UnitsPerMinute
          /\ \E i \in WaitEdges :
                /\ platform_edges[i].to_id = dep_times[d][1][1]
                /\ platform_edges[i].to_line = dep_times[d][1][2]
                /\ platform_edges[i].time = 25

----------------------------------------------------------------------------
\* C30: ensure_unique_station_names is idempotent: applied to its own result
\* it changes no station name.
NamesOf(recs) == [i \in DOMAIN recs |-> <<recs[i][1], recs[i][2].station_name>>]

C30_EnsureUniqueIdempotent ==
    stage = "named" =>
        NamesOf(ensure_unique_station_names(stations)) = NamesOf(stations)

====
